---------------------------- MODULE Spec2Model ----------------------------
(***************************************************************************)
(* SpamGuard core: the spam detector and its offense ledger                *)
(* (spamguard/detector.py), the moderation runtime                         *)
(* (spamguard/security_runtime.py), the guild configuration store          *)
(* (spamguard/config.py) and the join-verification manager                 *)
(* (spamguard/verification.py).                                            *)
(*                                                                         *)
(* Text is a sequence of symbols.  A symbol is a letter, a whitespace      *)
(* character, or a lexical unit of a URL (scheme, "www." prefix, host      *)
(* label, ".", "/").  Upper-case symbols are written in capitals and       *)
(* LowerSym maps them to their lower-case form.                            *)
(***************************************************************************)
EXTENDS Integers, Sequences, FiniteSets, TLC

VARIABLES
    now,          \* wall clock, in seconds (datetime.now(utc))
    nOps,         \* number of operations (calls, events) performed so far
    gcfg,         \* the detector's configuration object  (SpamDetector.config)
    detector,     \* SpamDetector instance state, or NoDetector before it is built; under SpecRt the dict SecurityRuntime.detectors
    callLog,      \* history: [op, user, t] of every score / decide_enforcement / register_join call, in call order
    last,         \* history: what the last operation was given and what it returned
    store,        \* ConfigStore: default_config, guild_configs, and whether load() has run
    heap,         \* the list objects the configurations refer to: reference -> contents
    file,         \* the JSON document at ConfigStore.path, or NoFile
    member,       \* the member as the platform holds it: permissions, membership, roles
    sessions,     \* VerificationManager.sessions: key -> VerificationSession (by reference)
    sobj,         \* the VerificationSession objects: reference -> [key, code, expires_at, attempts]
    timeout_tasks,\* VerificationManager.timeout_tasks: key -> task
    tasks,        \* the coroutines in flight: task -> [kind, key, pc, sess, wake, n]
    nSess,        \* number of VerificationSession objects constructed so far
    vlog          \* history: code matches and failure-action calls, in order

detVars == <<now, gcfg, detector, callLog>>

cfgVars == <<store, heap, file>>

verVars == <<member, sessions, sobj, timeout_tasks, tasks, nSess, vlog>>

vars == <<nOps, last, detVars, cfgVars, verVars>>

-----------------------------------------------------------------------------
(* Bounds of the model *)

MaxTime == 3
MaxOps == 4
GateMaxTime == 1
GateMaxOps == 2
CfgMaxOps == 3
VMaxOps == 3
VMaxConc == 2
VMaxTime == 120

Users == {1, 2}
NoTime == -1
NoDetector == [none |-> TRUE]
NoOp == [op |-> "none"]

NoFile == [nofile |-> TRUE]

\* the configuration store as it is when a specification does not exercise it
CfgIdle ==
    /\ store = [default_config |-> <<>>, guild_configs |-> <<>>, loaded |-> FALSE]
    /\ heap = <<>>
    /\ file = NoFile

NoMember == [absent |-> TRUE]

\* the verification manager as it is when a specification does not exercise it
VerIdle ==
    /\ member = NoMember
    /\ sessions = <<>>
    /\ sobj = <<>>
    /\ timeout_tasks = <<>>
    /\ tasks = <<>>
    /\ nSess = 0
    /\ vlog = <<>>

\* dt.timedelta(hours=24), in seconds
Day == 86400

-----------------------------------------------------------------------------
(* Generic helpers *)

Max(a, b) == IF a >= b THEN a ELSE b

Range(s) == {s[i] : i \in DOMAIN s}

\* dict get with default, and item assignment, for collections.defaultdict(deque)
DGet(d, k) == IF k \in DOMAIN d THEN d[k] ELSE <<>>

DPut(d, k, v) == [x \in (DOMAIN d) \cup {k} |-> IF x = k THEN v ELSE d[x]]

-----------------------------------------------------------------------------
(* Text: str.strip, str.lower, WS_RE, URL_RE, urlparse *)

IsSpace(c) == c \in {" ", "\t"}

LowerSym(c) ==
    CASE c = "A" -> "a"
      [] c = "B" -> "b"
      [] c = "HTTP://" -> "http://"
      [] c = "WWW." -> "www."
      [] c = "EVIL" -> "evil"
      [] c = "NONE" -> "none"
      [] c = "Null" -> "null"
      [] c = "TRUE" -> "true"
      [] c = "Yes" -> "yes"
      [] c = "ON" -> "on"
      [] OTHER -> c

LowerStr(s) == [i \in DOMAIN s |-> LowerSym(s[i])]

RECURSIVE LStrip(_)
LStrip(s) == IF s # <<>> /\ IsSpace(s[1]) THEN LStrip(Tail(s)) ELSE s

RECURSIVE RStrip(_)
RStrip(s) ==
    IF s # <<>> /\ IsSpace(s[Len(s)]) THEN RStrip(SubSeq(s, 1, Len(s) - 1)) ELSE s

Strip(s) == RStrip(LStrip(s))

\* WS_RE.sub(" ", s): every maximal run of whitespace becomes one space
RECURSIVE CollapseWs(_)
CollapseWs(s) ==
    IF s = <<>> THEN <<>>
    ELSE IF IsSpace(s[1])
         THEN <<" ">> \o CollapseWs(LStrip(s))
         ELSE <<s[1]>> \o CollapseWs(Tail(s))

Normalize(content) == CollapseWs(LowerStr(Strip(content)))

IsScheme(c) == LowerSym(c) \in {"http://", "https://"}

\* length of the maximal run of non-whitespace symbols at the head of s
RECURSIVE NonWsRun(_)
NonWsRun(s) == IF s = <<>> \/ IsSpace(s[1]) THEN 0 ELSE 1 + NonWsRun(Tail(s))

\* URL_RE.findall(content): scheme followed by \S+, leftmost, non-overlapping
RECURSIVE FindUrls(_)
FindUrls(s) ==
    IF s = <<>> THEN <<>>
    ELSE IF IsScheme(s[1]) /\ NonWsRun(Tail(s)) >= 1
         THEN LET n == 1 + NonWsRun(Tail(s))
              IN  <<SubSeq(s, 1, n)>> \o FindUrls(SubSeq(s, n + 1, Len(s)))
         ELSE FindUrls(Tail(s))

RECURSIVE StripDots(_)
StripDots(h) ==
    IF h # <<>> /\ h[1] = "." THEN StripDots(Tail(h))
    ELSE IF h # <<>> /\ h[Len(h)] = "." THEN StripDots(SubSeq(h, 1, Len(h) - 1))
    ELSE h

\* the netloc of a URL: what follows the scheme, up to the first "/"
RECURSIVE UpToSlash(_)
UpToSlash(s) == IF s = <<>> \/ s[1] = "/" THEN <<>> ELSE <<s[1]>> \o UpToSlash(Tail(s))

\* urlparse(url) raises ValueError ("Invalid IPv6 URL") when the netloc has one
\* of "[" and "]" without the other
UrlRaises(url) ==
    LET netloc == IF url # <<>> /\ IsScheme(url[1]) THEN UpToSlash(Tail(url)) ELSE <<>>
    IN  ("[" \in Range(netloc)) # ("]" \in Range(netloc))

ExtractHost(url) ==
    LET netloc == IF url # <<>> /\ IsScheme(url[1]) THEN UpToSlash(Tail(url)) ELSE <<>>
        host == StripDots(LowerStr(netloc))
    IN  IF host # <<>> /\ host[1] = "www." THEN Tail(host) ELSE host

\* host.rsplit(".", 1)[-1] if "." in host else ""
Tld(host) ==
    IF \E i \in DOMAIN host : host[i] = "."
    THEN LET k == CHOOSE i \in DOMAIN host :
                      host[i] = "." /\ \A j \in DOMAIN host : host[j] = "." => j <= i
         IN  SubSeq(host, k + 1, Len(host))
    ELSE <<>>

RECURSIVE LStripDots(_)
LStripDots(h) == IF h # <<>> /\ h[1] = "." THEN LStripDots(Tail(h)) ELSE h

RECURSIVE Dedupe(_)
Dedupe(reasons) ==
    IF reasons = <<>> THEN <<>>
    ELSE LET init == Dedupe(SubSeq(reasons, 1, Len(reasons) - 1))
             x == reasons[Len(reasons)]
         IN  IF x \in Range(init) THEN init ELSE Append(init, x)


-----------------------------------------------------------------------------
(* SpamDetector (spamguard/detector.py) *)

\* SpamDetector.__init__: every history empty, no user known
NewDetector ==
    [user_messages |-> <<>>, user_duplicates |-> <<>>, user_urls |-> <<>>,
     user_offenses |-> <<>>, recent_joins |-> <<>>, recent_new_user_messages |-> <<>>]

\* while h and h[0] < cutoff: h.popleft()      (entries are bare timestamps)
RECURSIVE PopOlder(_, _)
PopOlder(h, cutoff) ==
    IF h # <<>> /\ h[1] < cutoff THEN PopOlder(Tail(h), cutoff) ELSE h

\* a prune that drops nothing
KeepPairs(h, cutoff) == h

\* while h and h[0][0] < cutoff: h.popleft()   (entries are (timestamp, x) pairs)
RECURSIVE PopOlderPairs(_, _)
PopOlderPairs(h, cutoff) ==
    IF h # <<>> /\ h[1][1] < cutoff THEN PopOlderPairs(Tail(h), cutoff) ELSE h

\* SpamDetector._prune
Prune(det, cfg, user_id, t) ==
    [det EXCEPT
        !.user_messages =
            DPut(@, user_id, PopOlder(DGet(@, user_id), t - cfg.window_sec)),
        !.user_duplicates =
            DPut(@, user_id, PopOlderPairs(DGet(@, user_id), t - cfg.duplicate_window_sec)),
        !.user_urls =
            DPut(@, user_id, PopOlderPairs(DGet(@, user_id), t - cfg.url_repeat_window_sec))]

\* SpamDetector._prune_joins
PruneJoins(joins, cfg, t) == PopOlderPairs(joins, t - cfg.raid_join_window_sec)

\* SpamDetector._prune_new_user_messages
PruneNewUserMessages(msgs, cfg, t) == PopOlder(msgs, t - cfg.raid_message_window_sec)

\* SpamDetector.register_join
RegisterJoinOp(det, cfg, user_id, joined_at) ==
    [det EXCEPT !.recent_joins = PruneJoins(Append(@, <<joined_at, user_id>>), cfg, joined_at)]

\* every message of a member with a join time taken as a new member's
IsRecentJoinAny(cfg, snapshot, t) == snapshot.joined_at # NoTime

\* SpamDetector._is_recent_join
IsRecentJoin(cfg, snapshot, t) ==
    IF snapshot.joined_at = NoTime THEN FALSE
    ELSE (t - snapshot.joined_at) <= cfg.new_member_window_sec

\* a URL risk that weighs each kind of host once per message, not once per URL
ScoreUrlRiskOnce(cfg, urls) ==
    LET hosts == {ExtractHost(urls[i]) : i \in DOMAIN urls}
                    \ ({<<>>} \cup {LowerStr(d) : d \in Range(cfg.allow_domains)})
        blocked == hosts \cap {LowerStr(d) : d \in Range(cfg.phishing_domains)}
        tlds == {h \in hosts \ blocked :
                    Tld(h) \in {LStripDots(LowerStr(d)) : d \in Range(cfg.suspicious_tlds)}}
    IN  [score |-> (IF blocked # {} THEN 8 ELSE 0) + (IF tlds # {} THEN 4 ELSE 0),
         reasons |-> (IF blocked # {} THEN <<"phishing_domain">> ELSE <<>>)
                     \o (IF tlds # {} THEN <<"suspicious_domain_tld">> ELSE <<>>)]

\* SpamDetector._score_url_risk: [score, reasons] over the (lower-cased) urls
RECURSIVE ScoreUrlRisk(_, _)
ScoreUrlRisk(cfg, urls) ==
    IF urls = <<>> THEN [score |-> 0, reasons |-> <<>>]
    ELSE LET blocked == {LowerStr(d) : d \in Range(cfg.phishing_domains)}
             allowed == {LowerStr(d) : d \in Range(cfg.allow_domains)}
             suspicious_tlds == {LStripDots(LowerStr(d)) : d \in Range(cfg.suspicious_tlds)}
             host == ExtractHost(urls[1])
             rest == ScoreUrlRisk(cfg, Tail(urls))
             this == IF host = <<>> THEN [score |-> 0, reasons |-> <<>>]
                     ELSE IF host \in allowed THEN [score |-> 0, reasons |-> <<>>]
                     ELSE IF host \in blocked
                          THEN [score |-> 8, reasons |-> <<"phishing_domain">>]
                     ELSE IF Tld(host) \in suspicious_tlds
                          THEN [score |-> 4, reasons |-> <<"suspicious_domain_tld">>]
                     ELSE [score |-> 0, reasons |-> <<>>]
         IN  [score |-> this.score + rest.score, reasons |-> this.reasons \o rest.reasons]

RapidPostingStrict(cfg, msg_history) == Len(msg_history) > cfg.max_msg_in_window

\* the test of `rapid_posting`, detector.py line 74
RapidPosting(cfg, msg_history) == Len(msg_history) >= cfg.max_msg_in_window

\* SpamDetector.score: the detector after the call, the score and the reasons;
\* `raised` when _extract_host raised out of the call (line 99), after the
\* message was appended to the user's three histories (lines 70-89)
Score(det, cfg, snapshot) ==
    LET t == snapshot.created_at
        u == snapshot.user_id
        d1 == Prune(det, cfg, u, t)
        msg_history == Append(d1.user_messages[u], t)
        normalized == Normalize(snapshot.content)
        dup_history == Append(d1.user_duplicates[u], <<t, normalized>>)
        rapid == RapidPosting(cfg, msg_history)
        dup_count == Cardinality({i \in DOMAIN dup_history :
                        dup_history[i][2] # <<>> /\ dup_history[i][2] = normalized})
        dup == normalized # <<>> /\ dup_count >= cfg.dup_threshold
        found == FindUrls(snapshot.content)
        urls == [i \in DOMAIN found |-> LowerStr(found[i])]
        url_spam == Len(urls) >= cfg.url_threshold
        url_history == d1.user_urls[u] \o [i \in DOMAIN urls |-> <<t, urls[i]>>]
        repeated == \E i \in DOMAIN urls :
                        Cardinality({j \in DOMAIN url_history : url_history[j][2] = urls[i]})
                            >= cfg.url_repeat_threshold
        raised == \E i \in DOMAIN urls : UrlRaises(urls[i])
        risk == ScoreUrlRisk(cfg, urls)
        mention == snapshot.mention_count >= cfg.mention_threshold
        new_account == (t - snapshot.account_created_at) < Day
        new_msgs == IF IsRecentJoin(cfg, snapshot, t)
                    THEN Append(d1.recent_new_user_messages, t)
                    ELSE d1.recent_new_user_messages
        joins2 == PruneJoins(d1.recent_joins, cfg, t)
        new_msgs2 == PruneNewUserMessages(new_msgs, cfg, t)
        raid == Len(joins2) >= cfg.raid_join_threshold
        raid_activity == raid /\ Len(new_msgs2) >= cfg.raid_new_user_message_threshold
        reasons ==
            (IF rapid THEN <<"rapid_posting">> ELSE <<>>)
            \o (IF dup THEN <<"duplicate_messages">> ELSE <<>>)
            \o (IF url_spam THEN <<"url_spam">> ELSE <<>>)
            \o (IF repeated THEN <<"repeated_url_posts">> ELSE <<>>)
            \o risk.reasons
            \o (IF mention THEN <<"mention_spam">> ELSE <<>>)
            \o (IF new_account THEN <<"new_account">> ELSE <<>>)
            \o (IF raid THEN <<"raid_join_surge">> ELSE <<>>)
            \o (IF raid_activity THEN <<"raid_activity">> ELSE <<>>)
        total ==
            (IF rapid THEN 2 ELSE 0) + (IF dup THEN 3 ELSE 0)
            + (IF url_spam THEN 3 ELSE 0) + (IF repeated THEN 3 ELSE 0)
            + risk.score
            + (IF mention THEN 3 ELSE 0) + (IF new_account THEN 1 ELSE 0)
            + (IF raid THEN 2 ELSE 0) + (IF raid_activity THEN 5 ELSE 0)
    IN  IF raised
        THEN [det |-> [d1 EXCEPT !.user_messages[u] = msg_history,
                                 !.user_duplicates[u] = dup_history,
                                 !.user_urls[u] = url_history],
              raised |-> TRUE, score |-> 0, reasons |-> <<>>]
        ELSE [det |-> [d1 EXCEPT !.user_messages[u] = msg_history,
                                 !.user_duplicates[u] = dup_history,
                                 !.user_urls[u] = url_history,
                                 !.recent_joins = joins2,
                                 !.recent_new_user_messages = new_msgs2],
              raised |-> FALSE, score |-> total, reasons |-> Dedupe(reasons)]

\* the action chosen from the offense count, detector.py lines 135-141
ChooseActionNoBan(cfg, count) ==
    IF count >= cfg.timeout_threshold THEN "timeout"
    ELSE IF count < cfg.warning_threshold THEN "none"
    ELSE "warn"

ChooseAction(cfg, count) ==
    IF cfg.ban_enabled /\ count >= cfg.ban_threshold THEN "ban"
    ELSE IF count >= cfg.timeout_threshold THEN "timeout"
    ELSE IF count < cfg.warning_threshold THEN "none"
    ELSE "warn"

\* a decide_enforcement that never drops an offense from the ledger
DecideEnforcementNoPrune(det, cfg, user_id, t) ==
    LET history == Append(DGet(det.user_offenses, user_id), t)
        count == Len(history)
    IN  [det |-> [det EXCEPT !.user_offenses = DPut(@, user_id, history)],
         offense_count |-> count,
         action |-> ChooseAction(cfg, count)]

\* SpamDetector.decide_enforcement: the detector after the call and the decision
DecideEnforcement(det, cfg, user_id, t) ==
    LET history == Append(PopOlder(DGet(det.user_offenses, user_id),
                                   t - cfg.offense_window_sec), t)
        count == Len(history)
    IN  [det |-> [det EXCEPT !.user_offenses = DPut(@, user_id, history)],
         offense_count |-> count,
         action |-> ChooseAction(cfg, count)]


-----------------------------------------------------------------------------
(* Configurations (SpamGuardConfig, spamguard/config.py), with windows and *)
(* thresholds small enough for every signal to fire within a few messages  *)

EvilHost == <<"evil", ".", "com">>
OkHost == <<"ok", ".", "zip">>
\* a URL of the blocked host, in upper case and with www.
PhishingUrl == <<"HTTP://", "WWW.", "EVIL", ".", "com", "/", "x">>

BaseConfig ==
    [window_sec |-> 2, max_msg_in_window |-> 2,
     duplicate_window_sec |-> 2, dup_threshold |-> 2,
     url_threshold |-> 2, url_repeat_window_sec |-> 2, url_repeat_threshold |-> 2,
     mention_threshold |-> 1, score_threshold |-> 6, timeout_minutes |-> 10,
     warning_threshold |-> 1, timeout_threshold |-> 2, ban_threshold |-> 3,
     offense_window_sec |-> 2, ban_enabled |-> TRUE,
     phishing_domains |-> <<EvilHost>>, suspicious_tlds |-> <<<<"zip">>>>,
     allow_domains |-> <<OkHost>>,
     raid_join_window_sec |-> 2, raid_join_threshold |-> 2,
     raid_message_window_sec |-> 2, raid_new_user_message_threshold |-> 2,
     new_member_window_sec |-> 1,
     verify_enabled |-> TRUE, verify_timeout_minutes |-> 1,
     verify_max_attempts |-> 2, verify_fail_action |-> "kick",
     log_channel_id |-> 0,
     ignore_role_ids |-> <<>>, ignore_channel_ids |-> <<2>>,
     whitelist_user_ids |-> <<>>, whitelist_role_ids |-> <<>>]

-----------------------------------------------------------------------------
(* Detector operations as actions.  The clock only moves forward: every    *)
(* caller passes datetime.now(utc).                                        *)

Tick ==
    /\ now' = now + 1
    /\ UNCHANGED <<nOps, gcfg, detector, callLog, last, cfgVars, verVars>>

\* SecurityRuntime.resolve_detector with an unchanged configuration object
ResolveDetector == IF detector = NoDetector THEN NewDetector ELSE detector

\* detector.decide_enforcement(user_id, now)
Decide(u) ==
    /\ LET r == DecideEnforcement(ResolveDetector, gcfg, u, now)
       IN  /\ detector' = r.det
           /\ last' = [op |-> "decide_enforcement", user |-> u, t |-> now,
                       offense_count |-> r.offense_count, action |-> r.action]
    /\ callLog' = Append(callLog, [op |-> "decide_enforcement", user |-> u, t |-> now])
    /\ nOps' = nOps + 1
    /\ UNCHANGED <<now, gcfg, cfgVars, verVars>>

(* Escalation: every setting of the three thresholds and of ban_enabled *)

EnfThresholds == 1 .. 3

EnfConfigs ==
    {[BaseConfig EXCEPT !.warning_threshold = w, !.timeout_threshold = t,
                        !.ban_threshold = b, !.ban_enabled = e] :
        w \in EnfThresholds, t \in EnfThresholds, b \in EnfThresholds, e \in BOOLEAN}

InitEnf ==
    /\ CfgIdle
    /\ VerIdle
    /\ now = 0
    /\ nOps = 0
    /\ gcfg \in EnfConfigs
    /\ detector = NoDetector
    /\ callLog = <<>>
    /\ last = NoOp

NextEnf ==
    \/ now < MaxTime /\ Tick
    \/ nOps < MaxOps /\ \E u \in Users : Decide(u)

SpecEnf == InitEnf /\ [][NextEnf]_vars

\* the user's decide_enforcement calls so far whose time lies in the offense window of t
DecisionsInWindow(u, t) ==
    Cardinality({i \in DOMAIN callLog :
        /\ callLog[i].op = "decide_enforcement"
        /\ callLog[i].user = u
        /\ callLog[i].t >= t - gcfg.offense_window_sec})

\* C1: decide_enforcement returns ban when ban_enabled and count >= ban_threshold,
\* otherwise timeout when count >= timeout_threshold, otherwise warn when
\* count >= warning_threshold, otherwise none, where count is the length of the
\* user's offense history after the current offense was appended; with thresholds
\* 1, 2, 3 and ban enabled the first three calls inside the window give warn,
\* timeout, ban.
C1_Escalation ==
    last.op = "decide_enforcement" =>
        LET count == last.offense_count
            expected ==
                IF gcfg.ban_enabled /\ count >= gcfg.ban_threshold THEN "ban"
                ELSE IF count >= gcfg.timeout_threshold THEN "timeout"
                ELSE IF count >= gcfg.warning_threshold THEN "warn"
                ELSE "none"
            k == DecisionsInWindow(last.user, last.t)
        IN  /\ count = Len(detector.user_offenses[last.user])
            /\ detector.user_offenses[last.user][count] = last.t
            /\ last.action = expected
            /\ (/\ gcfg.warning_threshold = 1 /\ gcfg.timeout_threshold = 2
                /\ gcfg.ban_threshold = 3 /\ gcfg.ban_enabled
                /\ k <= 3)
               => last.action = <<"warn", "timeout", "ban">>[k]

\* C1 witness: the third offense inside the window is answered with a ban
C1_Witness ==
    /\ last.op = "decide_enforcement"
    /\ gcfg.warning_threshold = 1 /\ gcfg.timeout_threshold = 2
    /\ gcfg.ban_threshold = 3 /\ gcfg.ban_enabled
    /\ last.offense_count = 3
    /\ last.action = "ban"

\* C16: for non-decreasing call times, the offense_count returned by
\* decide_enforcement(user, now) is 1 plus the number of earlier
\* decide_enforcement calls for the same user with time >= now -
\* offense_window_sec; calls for other users never count, and a call counts
\* whatever action it returned (none included).
C16_OffenseCount ==
    last.op = "decide_enforcement" =>
        last.offense_count =
            1 + Cardinality({i \in 1 .. (Len(callLog) - 1) :
                    /\ callLog[i].op = "decide_enforcement"
                    /\ callLog[i].user = last.user
                    /\ callLog[i].t >= last.t - gcfg.offense_window_sec})

\* C16 witness: a count of 2 answered with none (so the earlier offense in the
\* window was answered with none too), with an offense of the same user that
\* has left the window and an offense of another user
C16_Witness ==
    /\ last.op = "decide_enforcement"
    /\ last.offense_count = 2
    /\ last.action = "none"
    /\ \E i \in DOMAIN callLog :
          callLog[i].user = last.user /\ callLog[i].t < last.t - gcfg.offense_window_sec
    /\ \E i \in DOMAIN callLog : callLog[i].user # last.user


-----------------------------------------------------------------------------
(* Scoring as an action: detector.score(snapshot) at the current time *)

ScoreCall(snapshot) ==
    /\ snapshot.created_at = now
    /\ LET r == Score(ResolveDetector, gcfg, snapshot)
       IN  /\ detector' = r.det
           /\ last' = IF r.raised
                       THEN [op |-> "score_raised", user |-> snapshot.user_id, t |-> now,
                             error |-> "ValueError"]
                       ELSE [op |-> "score", user |-> snapshot.user_id, t |-> now,
                             score |-> r.score, reasons |-> r.reasons]
    /\ callLog' = Append(callLog, [op |-> "score", user |-> snapshot.user_id, t |-> now,
                                   snapshot |-> snapshot])
    /\ nOps' = nOps + 1
    /\ UNCHANGED <<now, gcfg, cfgVars, verVars>>

\* a snapshot as tests/test_detector.py build_snapshot makes it
Snapshot(u, content, mentions, age, joined_at) ==
    [user_id |-> u, content |-> content, mention_count |-> mentions,
     created_at |-> now, account_created_at |-> now - age, joined_at |-> joined_at]

\* detector.register_join(user_id, now), on a member joining
RegisterJoin(u) ==
    /\ detector' = RegisterJoinOp(ResolveDetector, gcfg, u, now)
    /\ last' = [op |-> "register_join", user |-> u, t |-> now]
    /\ callLog' = Append(callLog, [op |-> "register_join", user |-> u, t |-> now])
    /\ nOps' = nOps + 1
    /\ UNCHANGED <<now, gcfg, cfgVars, verVars>>

(* Rapid posting: plain messages of two users, windows of 1 and 2 seconds *)

RapidConfigs ==
    {[BaseConfig EXCEPT !.window_sec = w, !.max_msg_in_window = m] :
        w \in {1, 2}, m \in {2, 3}}

RapidContents == {<<"a">>, <<" ", "A">>}

InitRapid ==
    /\ CfgIdle
    /\ VerIdle
    /\ now = 0
    /\ nOps = 0
    /\ gcfg \in RapidConfigs
    /\ detector = NoDetector
    /\ callLog = <<>>
    /\ last = NoOp

NextRapid ==
    \/ now < MaxTime /\ Tick
    \/ nOps < MaxOps /\ \E u \in Users, c \in RapidContents :
          ScoreCall(Snapshot(u, c, 0, 2 * Day, NoTime))

SpecRapid == InitRapid /\ [][NextRapid]_vars

\* the user's score calls so far with createdAt >= t - window_sec
ScoredInWindow(u, t) ==
    Cardinality({i \in DOMAIN callLog :
        /\ callLog[i].op = "score"
        /\ callLog[i].user = u
        /\ callLog[i].t >= t - gcfg.window_sec})

\* C10: score tags rapid_posting, adding 2, if and only if the number of that
\* user's scored messages with createdAt >= now - window_sec, the current one
\* counted, is >= max_msg_in_window; other users' messages and messages older
\* than the window do not count.
C10_RapidPosting ==
    last.op = "score" =>
        LET rapid == ScoredInWindow(last.user, last.t) >= gcfg.max_msg_in_window
            dup == "duplicate_messages" \in Range(last.reasons)
        IN  /\ ("rapid_posting" \in Range(last.reasons)) <=> rapid
            /\ last.score = (IF rapid THEN 2 ELSE 0) + (IF dup THEN 3 ELSE 0)

\* C10 witness: the user's window holds fewer messages than the user has sent
\* and than both users have sent together, and it is full
C10_Witness ==
    /\ last.op = "score"
    /\ "rapid_posting" \in Range(last.reasons)
    /\ \E i \in DOMAIN callLog :
          callLog[i].user = last.user /\ callLog[i].t < last.t - gcfg.window_sec
    /\ \E i \in DOMAIN callLog : callLog[i].user # last.user

\* C10 witness of the other side: a message that is not tagged although the
\* user sent max_msg_in_window messages in all
C10_WitnessNot ==
    /\ last.op = "score"
    /\ "rapid_posting" \notin Range(last.reasons)
    /\ Cardinality({i \in DOMAIN callLog : callLog[i].user = last.user})
          >= gcfg.max_msg_in_window


-----------------------------------------------------------------------------
(* Duplicates: two users, contents that normalize to the same text, to     *)
(* another text and to the empty text, duplicate windows of 1 and 2 s      *)

DupMaxOps == 3

DupConfigs ==
    {[BaseConfig EXCEPT !.duplicate_window_sec = p[1], !.dup_threshold = p[2],
                        !.max_msg_in_window = 9] : p \in {<<1, 2>>, <<2, 2>>, <<1, 3>>}}

DupContents ==
    {<<"a", " ", "b">>, <<" ", "A", "\t", " ", "B">>, <<" ">>, <<"b">>}

InitDup ==
    /\ CfgIdle
    /\ VerIdle
    /\ now = 0
    /\ nOps = 0
    /\ gcfg \in DupConfigs
    /\ detector = NoDetector
    /\ callLog = <<>>
    /\ last = NoOp

NextDup ==
    \/ now < MaxTime /\ Tick
    \/ nOps < DupMaxOps /\ \E u \in Users, c \in DupContents :
          ScoreCall(Snapshot(u, c, 0, 2 * Day, NoTime))

SpecDup == InitDup /\ [][NextDup]_vars

\* the user's score calls so far, inside the duplicate window of t, whose
\* content trimmed, lower-cased and with whitespace runs collapsed is text
SameTextInWindow(u, t, text) ==
    Cardinality({i \in DOMAIN callLog :
        /\ callLog[i].op = "score"
        /\ callLog[i].user = u
        /\ callLog[i].t >= t - gcfg.duplicate_window_sec
        /\ Normalize(callLog[i].snapshot.content) = text})

\* C11: score tags duplicate_messages, adding 3, if and only if the normalized
\* content of the current message is non-empty and the number of that user's
\* messages inside duplicate_window_sec with the same normalized content, the
\* current one counted, is >= dup_threshold; a message whose normalized content
\* is empty is never tagged.
C11_Duplicates ==
    last.op = "score" =>
        LET text == Normalize(callLog[Len(callLog)].snapshot.content)
            dup == text # <<>> /\ SameTextInWindow(last.user, last.t, text) >= gcfg.dup_threshold
        IN  /\ ("duplicate_messages" \in Range(last.reasons)) <=> dup
            /\ last.score = IF dup THEN 3 ELSE 0
            /\ text = <<>> => "duplicate_messages" \notin Range(last.reasons)

\* C11 witness: a message tagged as a duplicate of one written differently
\* (case, whitespace), while an older equal message has left the window
C11_Witness ==
    /\ last.op = "score"
    /\ "duplicate_messages" \in Range(last.reasons)
    /\ \E i \in DOMAIN callLog :
          /\ callLog[i].user = last.user
          /\ callLog[i].t >= last.t - gcfg.duplicate_window_sec
          /\ callLog[i].snapshot.content # callLog[Len(callLog)].snapshot.content
          /\ Normalize(callLog[i].snapshot.content)
               = Normalize(callLog[Len(callLog)].snapshot.content)
    /\ \E i \in DOMAIN callLog :
          /\ callLog[i].user = last.user
          /\ callLog[i].t < last.t - gcfg.duplicate_window_sec
          /\ Normalize(callLog[i].snapshot.content)
               = Normalize(callLog[Len(callLog)].snapshot.content)

\* C11 witness of the other side: dup_threshold empty messages in the window,
\* the last one not tagged
C11_WitnessEmpty ==
    /\ last.op = "score"
    /\ Normalize(callLog[Len(callLog)].snapshot.content) = <<>>
    /\ SameTextInWindow(last.user, last.t, <<>>) >= gcfg.dup_threshold
    /\ "duplicate_messages" \notin Range(last.reasons)

-----------------------------------------------------------------------------
(* The raid overlay: joins and messages of members who joined just now,    *)
(* two seconds ago or at an unknown time; join and message windows of 1    *)
(* and 2 seconds, thresholds of 1 and 2                                    *)

RaidMaxOps == 3

\* <<raid_join_window_sec, raid_join_threshold, raid_message_window_sec,
\*   raid_new_user_message_threshold>>
RaidConfigs ==
    {[BaseConfig EXCEPT !.raid_join_window_sec = p[1], !.raid_join_threshold = p[2],
                        !.raid_message_window_sec = p[3],
                        !.raid_new_user_message_threshold = p[4],
                        !.new_member_window_sec = 1,
                        !.max_msg_in_window = 9, !.dup_threshold = 9] :
        p \in {<<1, 2, 2, 1>>, <<2, 1, 1, 2>>, <<1, 1, 1, 1>>}}

\* member.joined_at of the author: unknown, this second, or two seconds ago
JoinedAts == {NoTime} \cup {j \in {now, now - 2} : j >= 0}

InitRaid ==
    /\ CfgIdle
    /\ VerIdle
    /\ now = 0
    /\ nOps = 0
    /\ gcfg \in RaidConfigs
    /\ detector = NoDetector
    /\ callLog = <<>>
    /\ last = NoOp

NextRaid ==
    \/ now < MaxTime /\ Tick
    \/ nOps < RaidMaxOps /\ \E u \in Users : RegisterJoin(u)
    \/ nOps < RaidMaxOps /\ \E u \in Users, j \in JoinedAts :
            ScoreCall(Snapshot(u, <<"a">>, 0, 2 * Day, j))

SpecRaid == InitRaid /\ [][NextRaid]_vars

\* the joins registered at or after time t - raid_join_window_sec
JoinsInWindow(t) ==
    Cardinality({i \in DOMAIN callLog :
        /\ callLog[i].op = "register_join"
        /\ callLog[i].t >= t - gcfg.raid_join_window_sec})

\* the scored messages of members who had joined at most new_member_window_sec
\* before the message, created at or after time t - raid_message_window_sec
NewMemberMessagesInWindow(t) ==
    Cardinality({i \in DOMAIN callLog :
        /\ callLog[i].op = "score"
        /\ callLog[i].snapshot.joined_at # NoTime
        /\ callLog[i].t - callLog[i].snapshot.joined_at <= gcfg.new_member_window_sec
        /\ callLog[i].t >= t - gcfg.raid_message_window_sec})

\* C12: a scored message is tagged raid_join_surge (+2) exactly when the
\* joins registered within raid_join_window_sec of now number at least
\* raid_join_threshold, and raid_activity (+5) exactly when raid_join_surge
\* holds and the new-member messages within raid_message_window_sec, the
\* current one counted, number at least raid_new_user_message_threshold;
\* raid_activity never comes without raid_join_surge.
C12_RaidOverlay ==
    last.op = "score" =>
        LET surge == JoinsInWindow(last.t) >= gcfg.raid_join_threshold
            activity == /\ surge
                        /\ NewMemberMessagesInWindow(last.t)
                              >= gcfg.raid_new_user_message_threshold
        IN  /\ ("raid_join_surge" \in Range(last.reasons)) <=> surge
            /\ ("raid_activity" \in Range(last.reasons)) <=> activity
            /\ "raid_activity" \in Range(last.reasons)
                  => "raid_join_surge" \in Range(last.reasons)
            /\ last.score = (IF surge THEN 2 ELSE 0) + (IF activity THEN 5 ELSE 0)

\* C12 witness: raid_activity on a new member's message that is itself needed
\* to reach the message threshold, after a join
C12_Witness ==
    /\ last.op = "score"
    /\ "raid_activity" \in Range(last.reasons)
    /\ last.score = 7
    /\ NewMemberMessagesInWindow(last.t) = gcfg.raid_new_user_message_threshold
    /\ callLog[Len(callLog)].snapshot.joined_at # NoTime

\* C12 witness of the other side: a join surge without raid_activity although
\* a member with a known, older join time has written
C12_WitnessSurgeOnly ==
    /\ last.op = "score"
    /\ last.reasons = <<"raid_join_surge">>
    /\ last.score = 2
    /\ \E i \in DOMAIN callLog :
          callLog[i].op = "score" /\ callLog[i].snapshot.joined_at # NoTime

-----------------------------------------------------------------------------
(* URL reputation: one or two URLs per message, with hosts that are        *)
(* blocked, allowed, both, of a suspicious TLD, unlisted, written in upper *)
(* case, with www., with leading or trailing dots, or not parseable        *)

UrlMaxOps == 1

BadHost == <<"bad", ".", "zip">>

UrlConfigs ==
    {[BaseConfig EXCEPT !.phishing_domains = <<<<"EVIL", ".", "com">>, BadHost>>,
                        !.allow_domains = a,
                        !.url_threshold = 9, !.url_repeat_threshold = 9,
                        !.max_msg_in_window = 9, !.dup_threshold = 9,
                        !.mention_threshold = 9] :
        a \in {<<OkHost>>, <<OkHost, EvilHost>>}}

Urls ==
    {<<"HTTP://", "WWW.", "EVIL", ".", "com", ".", "/", "x">>,
     <<"http://", "ok", ".", "zip">>,
     <<"http://", "bad", ".", "zip", "/", "x">>,
     <<"https://", "x", ".", "zip">>,
     <<"http://", "x", ".", "com">>,
     <<"http://", ".", "evil", ".", "com">>,
     <<"http://", "[">>}

UrlContents == Urls \cup {u1 \o <<" ">> \o u2 : u1 \in Urls, u2 \in Urls}

InitUrl ==
    /\ CfgIdle
    /\ VerIdle
    /\ now = 0
    /\ nOps = 0
    /\ gcfg \in UrlConfigs
    /\ detector = NoDetector
    /\ callLog = <<>>
    /\ last = NoOp

NextUrl ==
    \/ now < MaxTime /\ Tick
    \/ nOps < UrlMaxOps /\ \E c \in UrlContents : ScoreCall(Snapshot(1, c, 0, 2 * Day, NoTime))

SpecUrl == InitUrl /\ [][NextUrl]_vars

RECURSIVE RStripDots(_)
RStripDots(h) ==
    IF h # <<>> /\ h[Len(h)] = "." THEN RStripDots(SubSeq(h, 1, Len(h) - 1)) ELSE h

\* the canonical host as the claim words it: lower-cased, trailing dots
\* stripped, a leading www. stripped
ClaimedHost(url) ==
    LET netloc == IF url # <<>> /\ IsScheme(url[1]) THEN UpToSlash(Tail(url)) ELSE <<>>
        host == RStripDots(LowerStr(netloc))
    IN  IF host # <<>> /\ host[1] = "www." THEN Tail(host) ELSE host

\* what one URL contributes by the claim: 0 allowed, 8 blocked, 4 suspicious TLD
ClaimedWeight(cfg, url) ==
    LET host == ClaimedHost(url)
    IN  IF host \in {LowerStr(d) : d \in Range(cfg.allow_domains)} THEN 0
        ELSE IF host \in {LowerStr(d) : d \in Range(cfg.phishing_domains)} THEN 8
        ELSE IF Tld(host) \in {LStripDots(LowerStr(d)) : d \in Range(cfg.suspicious_tlds)}
             THEN 4
        ELSE 0

RECURSIVE SumSeq(_)
SumSeq(ws) == IF ws = <<>> THEN 0 ELSE ws[1] + SumSeq(Tail(ws))

\* C13: every URL of a scored message contributes by its canonical host
\* (lower-cased, trailing dots and a leading www. stripped): nothing when the
\* host is in allow_domains, else 8 and phishing_domain when it is in
\* phishing_domains, else 4 and suspicious_domain_tld when its last label is
\* in suspicious_tlds; so every call of score returns with that score.
C13_UrlReputation ==
    /\ last.op # "score_raised"
    /\ last.op = "score" =>
          LET urls == FindUrls(callLog[Len(callLog)].snapshot.content)
              ws == [i \in DOMAIN urls |-> ClaimedWeight(gcfg, urls[i])]
          IN  /\ last.score = SumSeq(ws)
              /\ ("phishing_domain" \in Range(last.reasons))
                    <=> \E i \in DOMAIN ws : ws[i] = 8
              /\ ("suspicious_domain_tld" \in Range(last.reasons))
                    <=> \E i \in DOMAIN ws : ws[i] = 4

-----------------------------------------------------------------------------
(* The sum of the weights: joins and messages that raise every signal,     *)
(* alone and together, under url_threshold 2 and mention_threshold 4       *)

SumMaxOps == 3

Hour == 3600

SumConfigs ==
    {[BaseConfig EXCEPT !.url_threshold = 2, !.mention_threshold = 4,
                        !.raid_join_threshold = 1,
                        !.raid_new_user_message_threshold = 1]}

\* "https://a.example https://b.example", tests/test_detector.py
TwoUrls == <<"https://", "a", ".", "example", " ", "https://", "b", ".", "example">>

\* [content, mention_count, account age, joined just now] of the messages
SumMessages ==
    {<<<<"a">>, 0, 2 * Day, FALSE>>,
     <<<<"a">>, 4, Hour, TRUE>>,
     <<TwoUrls, 4, Hour, FALSE>>,
     <<PhishingUrl, 0, 2 * Day, FALSE>>,
     <<PhishingUrl \o <<" ">> \o PhishingUrl, 0, Day, TRUE>>,
     <<<<"https://", "x", ".", "zip", " ">> \o PhishingUrl \o <<" ", "http://", "y", ".", "zip">>,
       3, Day - 1, FALSE>>}

InitSum ==
    /\ CfgIdle
    /\ VerIdle
    /\ now = 0
    /\ nOps = 0
    /\ gcfg \in SumConfigs
    /\ detector = NoDetector
    /\ callLog = <<>>
    /\ last = NoOp

NextSum ==
    \/ now < MaxTime /\ Tick
    \/ nOps < SumMaxOps /\ RegisterJoin(2)
    \/ nOps < SumMaxOps /\ \E m \in SumMessages :
            ScoreCall(Snapshot(1, m[1], m[2], m[3], IF m[4] THEN now ELSE NoTime))

SpecSum == InitSum /\ [][NextSum]_vars

\* the weight of one URL: 0 for an allowed host, 8 for a blocked one, 4 for
\* one of a suspicious TLD
UrlWeight(cfg, url) ==
    LET host == ExtractHost(LowerStr(url))
    IN  IF host \in {LowerStr(d) : d \in Range(cfg.allow_domains)} THEN 0
        ELSE IF host \in {LowerStr(d) : d \in Range(cfg.phishing_domains)} THEN 8
        ELSE IF Tld(host) \in {LStripDots(LowerStr(d)) : d \in Range(cfg.suspicious_tlds)}
             THEN 4
        ELSE 0

\* the weight of a tag that is charged once per message
TagWeight(tag) ==
    CASE tag = "rapid_posting" -> 2
      [] tag = "duplicate_messages" -> 3
      [] tag = "url_spam" -> 3
      [] tag = "repeated_url_posts" -> 3
      [] tag = "mention_spam" -> 3
      [] tag = "new_account" -> 1
      [] tag = "raid_join_surge" -> 2
      [] tag = "raid_activity" -> 5
      [] OTHER -> 0

\* C14: the score returned is exactly the sum of the weights of the signals
\* that fired: 2 rapid_posting, 3 duplicate_messages, 3 url_spam (URL count >=
\* url_threshold), 3 repeated_url_posts, 8 for every URL of a blocked host, 4
\* for every URL of a suspicious TLD, 3 mention_spam (mention_count >=
\* mention_threshold), 1 new_account (account younger than 24 hours), 2
\* raid_join_surge, 5 raid_activity; a first message with two distinct
\* unlisted URLs, 4 mentions and a one-hour-old account scores exactly 7.
C14_ScoreIsSumOfWeights ==
    last.op = "score" =>
        LET snapshot == callLog[Len(callLog)].snapshot
            urls == FindUrls(snapshot.content)
            fired(tag) == tag \in Range(last.reasons)
        IN  /\ last.score =
                  SumSeq([i \in DOMAIN last.reasons |-> TagWeight(last.reasons[i])])
                  + SumSeq([i \in DOMAIN urls |-> UrlWeight(gcfg, urls[i])])
            /\ fired("url_spam") <=> Len(urls) >= gcfg.url_threshold
            /\ fired("mention_spam") <=> snapshot.mention_count >= gcfg.mention_threshold
            /\ fired("new_account")
                  <=> snapshot.created_at - snapshot.account_created_at < Day
            /\ fired("phishing_domain") <=> \E i \in DOMAIN urls : UrlWeight(gcfg, urls[i]) = 8
            /\ fired("suspicious_domain_tld")
                  <=> \E i \in DOMAIN urls : UrlWeight(gcfg, urls[i]) = 4
            /\ (Len(callLog) = 1 /\ snapshot.content = TwoUrls
                    /\ snapshot.mention_count = 4
                    /\ snapshot.created_at - snapshot.account_created_at = Hour)
                  => last.score = 7

\* C14 witness: the first message, with two unlisted URLs, 4 mentions and an
\* account of one hour, scored 7
C14_Witness ==
    /\ last.op = "score"
    /\ Len(callLog) = 1
    /\ callLog[1].snapshot.content = TwoUrls
    /\ callLog[1].snapshot.mention_count = 4
    /\ last.score = 7
    /\ last.reasons = <<"url_spam", "mention_spam", "new_account">>

\* C14 witness of a sum of many weights: every once-per-message signal fired
\* and two URLs of a blocked host were charged 8 each
C14_WitnessAll ==
    /\ last.op = "score"
    /\ {"rapid_posting", "duplicate_messages", "url_spam", "repeated_url_posts",
         "phishing_domain", "raid_join_surge", "raid_activity"}
          \subseteq Range(last.reasons)
    /\ last.score = 2 + 3 + 3 + 3 + 16 + 2 + 5

-----------------------------------------------------------------------------
(* SecurityRuntime (spamguard/security_runtime.py).  A platform call ends  *)
(* "ok" or raises discord.Forbidden, another discord.HTTPException, or     *)
(* AttributeError when the library lacks the method.                       *)

PlatformOutcomes == {"ok", "Forbidden", "HTTPException", "AttributeError"}

\* an exemption test that looks at the channel only
IsExemptChannelOnly(message, cfg) == message.channel \in Range(cfg.ignore_channel_ids)

\* SecurityRuntime.is_exempt
IsExempt(message, cfg) ==
    \/ message.channel \in Range(cfg.ignore_channel_ids)
    \/ message.author \in Range(cfg.whitelist_user_ids)
    \/ message.roles \cap Range(cfg.ignore_role_ids) # {}
    \/ message.roles \cap Range(cfg.whitelist_role_ids) # {}

\* the enforcement gate, security_runtime.py lines 271-274
ForceReasons == {"phishing_domain", "raid_activity"}

ShouldEnforceScoreOnly(result, cfg) == result.score >= cfg.score_threshold

ShouldEnforce(result, cfg) ==
    \/ result.score >= cfg.score_threshold
    \/ ForceReasons \cap Range(result.reasons) # {}

\* message.delete() and its except clauses, security_runtime.py lines 279-286
DeleteStatus(outcome) ==
    CASE outcome = "ok" -> "ok"
      [] outcome = "Forbidden" -> "forbidden"
      [] outcome = "HTTPException" -> "http_error"

\* SecurityRuntime.perform_action: the status it returns
PerformAction(action, outcome) ==
    CASE action = "none" -> "not_attempted"
      [] action = "warn" ->
            IF outcome = "ok" THEN "ok" ELSE "http_error"
      [] action = "timeout" ->
            (CASE outcome = "ok" -> "ok"
               [] outcome = "Forbidden" -> "forbidden"
               [] outcome = "HTTPException" -> "http_error"
               [] outcome = "AttributeError" -> "not_supported")
      [] action = "ban" ->
            (CASE outcome = "ok" -> "ok"
               [] outcome = "Forbidden" -> "forbidden"
               [] outcome = "HTTPException" -> "http_error")
      [] OTHER -> "not_attempted"

\* the platform calls perform_action makes
ActionCalls(action) == IF action \in {"warn", "timeout", "ban"} THEN <<action>> ELSE <<>>

\* the exceptions a platform method can raise: only timeout_for may be missing
CanRaise(call, outcome) ==
    outcome \in {"ok", "Forbidden", "HTTPException"}
    \/ (call = "timeout" /\ outcome = "AttributeError")

\* SecurityRuntime.handle_message, from the call to its return
HandleMessage(message, delOut, actOut) ==
    /\ CanRaise("delete", delOut)
    /\ IF IsExempt(message, gcfg)
       THEN /\ last' = [op |-> "handle_message", user |-> message.author, t |-> now,
                        message |-> message, exempt |-> TRUE, enforced |-> FALSE, event_id |-> FALSE,
                        score |-> 0, reasons |-> <<>>, action |-> "",
                        offense_count |-> 0, delete_status |-> "", action_status |-> "",
                        calls |-> <<>>, outcomes |-> <<>>]
            /\ UNCHANGED <<detector, callLog>>
       ELSE LET snapshot == [user_id |-> message.author, content |-> message.content,
                             mention_count |-> message.mentions, created_at |-> now,
                             account_created_at |-> message.account_created_at,
                             joined_at |-> message.joined_at]
                result == Score(ResolveDetector, gcfg, snapshot)
                scored == [op |-> "score", user |-> message.author, t |-> now,
                           snapshot |-> snapshot]
            IN  IF result.raised
                THEN /\ detector' = result.det
                     /\ callLog' = Append(callLog, scored)
                     /\ last' = [op |-> "handle_message_raised", user |-> message.author,
                                 t |-> now, message |-> message, error |-> "ValueError"]
                ELSE IF ~ShouldEnforce(result, gcfg)
                THEN /\ detector' = result.det
                     /\ callLog' = Append(callLog, scored)
                     /\ last' = [op |-> "handle_message", user |-> message.author,
                                 t |-> now, message |-> message, exempt |-> FALSE,
                                 enforced |-> FALSE,
                                 event_id |-> FALSE,
                                 score |-> result.score, reasons |-> result.reasons,
                                 action |-> "", offense_count |-> 0,
                                 delete_status |-> "", action_status |-> "",
                                 calls |-> <<>>, outcomes |-> <<>>]
                ELSE LET decision == DecideEnforcement(result.det, gcfg, message.author, now)
                     IN  /\ CanRaise(decision.action, actOut)
                         /\ detector' = decision.det
                         /\ callLog' = callLog \o
                               <<scored, [op |-> "decide_enforcement",
                                          user |-> message.author, t |-> now]>>
                         /\ last' = [op |-> "handle_message", user |-> message.author,
                                     t |-> now, message |-> message, exempt |-> FALSE,
                                     enforced |-> TRUE,
                                     event_id |-> TRUE,
                                     score |-> result.score, reasons |-> result.reasons,
                                     action |-> decision.action,
                                     offense_count |-> decision.offense_count,
                                     delete_status |-> DeleteStatus(delOut),
                                     action_status |-> PerformAction(decision.action, actOut),
                                     calls |-> <<"delete">> \o ActionCalls(decision.action)
                                               \o <<"log">>,
                                     outcomes |-> <<delOut>> \o
                                         [i \in DOMAIN ActionCalls(decision.action) |-> actOut]]
    /\ nOps' = nOps + 1
    /\ UNCHANGED <<now, gcfg, cfgVars, verVars>>

(* Exemption: messages in an ignored channel, of a whitelisted author, of  *)
(* authors with an ignored or a whitelisted role, and of none of these     *)

ExMaxOps == 2

ExConfigs ==
    {[BaseConfig EXCEPT !.ignore_channel_ids = <<2>>, !.whitelist_user_ids = <<2>>,
                        !.ignore_role_ids = <<7>>, !.whitelist_role_ids = <<8>>,
                        !.raid_join_threshold = 1,
                        !.raid_new_user_message_threshold = 1]}

ExMessages ==
    [channel : {1, 2}, author : {1, 2}, roles : {{}, {7}, {8, 9}},
     content : {<<"a">>, PhishingUrl}, mentions : {1},
     account_created_at : {now - Hour}, joined_at : {now}]

InitEx ==
    /\ CfgIdle
    /\ VerIdle
    /\ now = 0
    /\ nOps = 0
    /\ gcfg \in ExConfigs
    /\ detector = NoDetector
    /\ callLog = <<>>
    /\ last = NoOp

NextEx ==
    \/ now < GateMaxTime /\ Tick
    \/ nOps < ExMaxOps /\ \E u \in Users : RegisterJoin(u)
    \/ nOps < ExMaxOps /\ \E m \in ExMessages :
          \E delOut \in {"ok", "Forbidden"}, actOut \in {"ok", "HTTPException"} :
              HandleMessage(m, delOut, actOut)

SpecEx == InitEx /\ [][NextEx]_vars

\* C15: handle_message on a message whose channel is in ignore_channel_ids,
\* whose author is in whitelist_user_ids or whose author has a role in
\* ignore_role_ids or whitelist_role_ids returns enforced = false at once:
\* the detector (per-user histories, raid state, offense ledger) is unchanged,
\* nothing is scored or decided and no platform call is made.
C15_ExemptUntouched ==
    [][(/\ last'.op \in {"handle_message", "handle_message_raised"}
        /\ \/ last'.message.channel \in Range(gcfg.ignore_channel_ids)
           \/ last'.message.author \in Range(gcfg.whitelist_user_ids)
           \/ last'.message.roles \cap Range(gcfg.ignore_role_ids) # {}
           \/ last'.message.roles \cap Range(gcfg.whitelist_role_ids) # {})
       => /\ last'.op = "handle_message"
          /\ ~last'.enforced
          /\ last'.calls = <<>>
          /\ detector' = detector
          /\ callLog' = callLog]_vars

\* C15 witness: after an enforced message of the author, a message of the same
\* author with a blocked URL, exempt by a whitelisted role only, was returned
\* with enforced = false
C15_Witness ==
    /\ last.op = "handle_message"
    /\ last.exempt
    /\ ~last.enforced
    /\ last.message.content = PhishingUrl
    /\ last.message.channel = 1
    /\ last.message.author = 1
    /\ last.message.roles = {8, 9}
    /\ detector # NoDetector
    /\ Len(DGet(detector.user_offenses, 1)) = 1

(* The enforcement gate: one author, messages that raise each kind of      *)
(* signal, a score threshold the forced reasons reach (6) or do not (20)   *)

GateConfigs ==
    {[BaseConfig EXCEPT !.score_threshold = s, !.raid_join_threshold = 1,
                        !.raid_new_user_message_threshold = 1] : s \in {6, 20}}

\* [content, mentions, account age, joined] of the messages posted
GateMessages ==
    {<<<<"a">>, 0, 2 * Day, FALSE>>,
     <<<<"a">>, 1, 0, TRUE>>,
     <<PhishingUrl, 0, 2 * Day, FALSE>>,
     <<<<"https://", "x", ".", "zip", " ", "https://", "x", ".", "zip">>, 1, 0, FALSE>>}

GateMessage(ch, m) ==
    [channel |-> ch, author |-> 1, roles |-> {}, content |-> m[1], mentions |-> m[2],
     account_created_at |-> now - m[3],
     joined_at |-> IF m[4] THEN now ELSE NoTime]

InitGate ==
    /\ CfgIdle
    /\ VerIdle
    /\ now = 0
    /\ nOps = 0
    /\ gcfg \in GateConfigs
    /\ detector = NoDetector
    /\ callLog = <<>>
    /\ last = NoOp

NextGate ==
    \/ now < GateMaxTime /\ Tick
    \/ nOps < GateMaxOps /\ \E u \in Users : RegisterJoin(u)
    \/ nOps < GateMaxOps /\ \E ch \in {1, 2}, m \in GateMessages :
          \E delOut \in {"ok", "Forbidden"}, actOut \in {"ok", "HTTPException"} :
              HandleMessage(GateMessage(ch, m), delOut, actOut)

SpecGate == InitGate /\ [][NextGate]_vars

\* C2: a non-exempt message is enforced (decide_enforcement called, delete
\* attempted, the action performed, enforced = true with an event id) if and
\* only if score >= score_threshold or the reasons contain phishing_domain or
\* raid_activity; otherwise enforced = false and no delete, warn, timeout, ban
\* or log call is made and no offense is recorded.
C2_EnforcementGate ==
    (last.op = "handle_message" /\ ~last.exempt) =>
        LET gate == \/ last.score >= gcfg.score_threshold
                    \/ "phishing_domain" \in Range(last.reasons)
                    \/ "raid_activity" \in Range(last.reasons)
            decided == callLog[Len(callLog)].op = "decide_enforcement"
        IN  /\ last.enforced <=> gate
            /\ last.enforced =>
                  /\ last.event_id
                  /\ decided
                  /\ last.offense_count = Len(detector.user_offenses[last.user])
                  /\ last.calls[1] = "delete"
                  /\ last.delete_status # "not_attempted"
                  /\ last.action \in {"warn", "timeout", "ban"} =>
                        last.calls = <<"delete", last.action, "log">>
                  /\ last.action = "none" => last.calls = <<"delete", "log">>
            /\ ~last.enforced =>
                  /\ ~last.event_id
                  /\ ~decided
                  /\ last.calls = <<>>
                  /\ DGet(detector.user_offenses, last.user) = <<>>
                     \/ detector.user_offenses[last.user][
                            Len(detector.user_offenses[last.user])] <= last.t

\* C2 witness: a message below the score threshold enforced for a forced reason
C2_Witness ==
    /\ last.op = "handle_message"
    /\ ~last.exempt
    /\ last.enforced
    /\ last.score < gcfg.score_threshold
    /\ "raid_activity" \in Range(last.reasons)

\* C2 witness of the other side: a scored message with reasons that is not enforced
C2_WitnessNot ==
    /\ last.op = "handle_message"
    /\ ~last.exempt
    /\ ~last.enforced
    /\ last.score > 0
    /\ last.calls = <<>>



-----------------------------------------------------------------------------
(* ConfigStore (spamguard/config.py).  A configuration object holds its    *)
(* dataclass fields and the other attributes set on the instance.  A       *)
(* list-valued field holds a reference to a list object in `heap`, so that *)
(* two configurations can share a list.  One field of each kind is kept.   *)

Tenants == {3, 12}

\* values, tagged by kind
IntV(n) == [k |-> "int", v |-> n]
BoolV(b) == [k |-> "bool", v |-> b]
StrV(x) == [k |-> "str", v |-> x]
NoneV == [k |-> "none"]
NullV == [k |-> "null"]
ListV(xs) == [k |-> "list", v |-> xs]
RefV(r) == [k |-> "ref", r |-> r]

FieldSeq ==
    <<"score_threshold", "ban_enabled", "log_channel_id", "verify_fail_action",
      "ignore_role_ids", "suspicious_tlds",
      "warning_threshold", "timeout_threshold", "ban_threshold", "log_viewer_role_id">>

CfgFields == Range(FieldSeq)

\* attributes of the class that are not dataclass fields
ClassAttrs == {"from_dict"}

\* the dataclass defaults, config.py lines 12-57
DefaultValue(f) ==
    CASE f = "score_threshold" -> IntV(6)
      [] f = "ban_enabled" -> BoolV(FALSE)
      [] f = "log_channel_id" -> NoneV
      [] f = "verify_fail_action" -> StrV("kick")
      [] f = "ignore_role_ids" -> ListV(<<>>)
      [] f = "warning_threshold" -> IntV(1)
      [] f = "timeout_threshold" -> IntV(2)
      [] f = "ban_threshold" -> IntV(4)
      [] f = "log_viewer_role_id" -> NoneV
      [] f = "suspicious_tlds" ->
            ListV(<<StrV("zip"), StrV("mov"), StrV("top"), StrV("click"),
                    StrV("xyz"), StrV("gq"), StrV("tk")>>)

\* the n-th reference not in use
NthFree(used, n) ==
    CHOOSE r \in 1 .. (Cardinality(used) + n) :
        r \notin used /\ Cardinality({x \in 1 .. r : x \notin used}) = n

\* SpamGuardConfig(**vals): the given values, the defaults for the fields not
\* given, every list a list object of its own
MakeConfig(hp, vals) ==
    LET full == [f \in CfgFields |-> IF f \in DOMAIN vals THEN vals[f] ELSE DefaultValue(f)]
        isList(i) == full[FieldSeq[i]].k = "list"
        rank(i) == Cardinality({j \in 1 .. i : isList(j)})
        ref(i) == NthFree(DOMAIN hp, rank(i))
        idx(f) == CHOOSE i \in DOMAIN FieldSeq : FieldSeq[i] = f
        newRefs == {ref(i) : i \in {j \in DOMAIN FieldSeq : isList(j)}}
        owner(r) == CHOOSE i \in DOMAIN FieldSeq : isList(i) /\ ref(i) = r
    IN  [heap |-> [r \in (DOMAIN hp) \cup newRefs |->
                      IF r \in DOMAIN hp THEN hp[r] ELSE full[FieldSeq[owner(r)]].v],
         cfg |-> [f |-> [f \in CfgFields |->
                            IF full[f].k = "list" THEN RefV(ref(idx(f))) ELSE full[f]],
                  extra |-> <<>>]]

\* dataclasses.asdict: the fields only, lists copied by content
AsDict(cfg, hp) ==
    [f \in CfgFields |-> IF cfg.f[f].k = "ref" THEN ListV(hp[cfg.f[f].r]) ELSE cfg.f[f]]

\* json.dumps / json.loads of one value
ToJson(v) == IF v.k = "none" THEN NullV ELSE v

FromJson(v) == IF v.k = "null" THEN NoneV ELSE v

JsonObj(d) == [f \in DOMAIN d |-> ToJson(d[f])]

\* str(guild_id) and int(guild_id)
Digits == <<"0", "1", "2", "3", "4", "5", "6", "7", "8", "9">>

RECURSIVE IntToStr(_)
IntToStr(n) ==
    IF n < 10 THEN <<Digits[n + 1]>>
    ELSE IntToStr(n \div 10) \o <<Digits[(n % 10) + 1]>>

RECURSIVE StrToInt(_)
StrToInt(str) ==
    IF str = <<>> THEN 0
    ELSE 10 * StrToInt(SubSeq(str, 1, Len(str) - 1))
         + ((CHOOSE i \in DOMAIN Digits : Digits[i] = str[Len(str)]) - 1)

\* sorted(keys)
RECURSIVE SortedSeq(_)
SortedSeq(S) ==
    IF S = {} THEN <<>>
    ELSE LET m == CHOOSE x \in S : \A y \in S : x <= y
         IN  <<m>> \o SortedSeq(S \ {m})

\* ConfigStore.save: the document written
Save(st, hp) ==
    LET keys == SortedSeq(DOMAIN st.guild_configs)
    IN  [defaults |-> JsonObj(AsDict(st.default_config, hp)),
         guilds |-> [i \in DOMAIN keys |->
                        <<IntToStr(keys[i]), JsonObj(AsDict(st.guild_configs[keys[i]], hp))>>]]

\* SpamGuardConfig.from_dict with every value ignored
FromDictDefaults(hp, values) == MakeConfig(hp, <<>>)

\* a from_dict that keeps the unknown keys as attributes of the configuration
FromDictKeepUnknown(hp, values) ==
    LET c == MakeConfig(hp, [f \in CfgFields \cap DOMAIN values |-> FromJson(values[f])])
    IN  [c EXCEPT !.cfg.extra = [k \in (DOMAIN values) \ CfgFields |-> FromJson(values[k])]]

\* SpamGuardConfig.from_dict: unknown keys dropped, missing keys at their defaults
FromDict(hp, values) ==
    MakeConfig(hp, [f \in CfgFields \cap DOMAIN values |-> FromJson(values[f])])

\* the dict comprehension of load(): guild_configs and the heap after it
RECURSIVE LoadGuilds(_, _, _)
LoadGuilds(hp, guilds, acc) ==
    IF guilds = <<>> THEN [heap |-> hp, guild_configs |-> acc]
    ELSE LET c == FromDict(hp, guilds[1][2])
         IN  LoadGuilds(c.heap, Tail(guilds), DPut(acc, StrToInt(guilds[1][1]), c.cfg))

\* a load() without the migration of the old single-configuration shape
LoadStoreNoMigrate(fl) ==
    IF fl = NoFile
    THEN LET d == MakeConfig(<<>>, <<>>)
             st == [default_config |-> d.cfg, guild_configs |-> <<>>, loaded |-> TRUE]
         IN  [store |-> st, heap |-> d.heap, file |-> Save(st, d.heap)]
    ELSE LET defaults == IF "defaults" \in DOMAIN fl THEN fl.defaults ELSE <<>>
             guilds == IF "guilds" \in DOMAIN fl THEN fl.guilds ELSE <<>>
             d == FromDict(<<>>, defaults)
             g == LoadGuilds(d.heap, guilds, <<>>)
         IN  [store |-> [default_config |-> d.cfg, guild_configs |-> g.guild_configs,
                         loaded |-> TRUE],
              heap |-> g.heap, file |-> fl]

\* ConfigStore(path) followed by load(): the store, its lists, and the file
LoadStore(fl) ==
    IF fl = NoFile
    THEN LET d == MakeConfig(<<>>, <<>>)
             st == [default_config |-> d.cfg, guild_configs |-> <<>>, loaded |-> TRUE]
         IN  [store |-> st, heap |-> d.heap, file |-> Save(st, d.heap)]
    ELSE IF "defaults" \notin DOMAIN fl /\ "guilds" \notin DOMAIN fl
    THEN LET d == FromDict(<<>>, fl)
             st == [default_config |-> d.cfg, guild_configs |-> <<>>, loaded |-> TRUE]
         IN  [store |-> st, heap |-> d.heap, file |-> Save(st, d.heap)]
    ELSE LET defaults == IF "defaults" \in DOMAIN fl THEN fl.defaults ELSE <<>>
             guilds == IF "guilds" \in DOMAIN fl THEN fl.guilds ELSE <<>>
             d == FromDict(<<>>, defaults)
             g == LoadGuilds(d.heap, guilds, <<>>)
         IN  [store |-> [default_config |-> d.cfg, guild_configs |-> g.guild_configs,
                         loaded |-> TRUE],
              heap |-> g.heap, file |-> fl]

\* a configuration that shares the lists of the one it is made from
CopyConfigShallow(hp, cfg) == [heap |-> hp, cfg |-> [f |-> cfg.f, extra |-> <<>>]]

\* SpamGuardConfig(**deepcopy(asdict(cfg)))
CopyConfig(hp, cfg) == MakeConfig(hp, AsDict(cfg, hp))

\* ConfigStore.get_guild_config
GetGuildConfigOp(st, hp, fl, guild_id) ==
    IF guild_id \in DOMAIN st.guild_configs
    THEN [store |-> st, heap |-> hp, file |-> fl]
    ELSE LET c == CopyConfig(hp, st.default_config)
             st2 == [st EXCEPT !.guild_configs = DPut(@, guild_id, c.cfg)]
         IN  [store |-> st2, heap |-> c.heap, file |-> Save(st2, c.heap)]

\* hasattr(cfg, key)
HasAttr(cfg, key) == key \in CfgFields \cup ClassAttrs \cup DOMAIN cfg.extra

\* setattr(cfg, key, value)
SetAttr(cfg, key, value) ==
    IF key \in CfgFields THEN [cfg EXCEPT !.f[key] = value]
    ELSE [cfg EXCEPT !.extra = DPut(@, key, value)]

\* ConfigStore.set_guild_value
SetGuildValueOp(st, hp, fl, guild_id, key, value) ==
    LET g == GetGuildConfigOp(st, hp, fl, guild_id)
        cfg == g.store.guild_configs[guild_id]
    IN  IF ~HasAttr(cfg, key)
        THEN [store |-> g.store, heap |-> g.heap, file |-> g.file, ok |-> FALSE]
        ELSE LET st2 == [g.store EXCEPT !.guild_configs[guild_id] = SetAttr(cfg, key, value)]
             IN  [store |-> st2, heap |-> g.heap, file |-> Save(st2, g.heap), ok |-> TRUE]

\* list.remove(x): the first occurrence
RECURSIVE RemoveFirst(_, _)
RemoveFirst(xs, x) ==
    IF xs = <<>> THEN <<>>
    ELSE IF xs[1] = x THEN Tail(xs)
    ELSE <<xs[1]>> \o RemoveFirst(Tail(xs), x)

\* the list objects still referred to
LiveRefs(st) ==
    LET cs == {st.default_config} \cup Range(st.guild_configs)
    IN  UNION {{c.f[f].r : f \in {g \in CfgFields : c.f[g].k = "ref"}} : c \in cs}

\* the heap without the list objects nothing refers to
Collect(st, hp) == [r \in (DOMAIN hp) \cap LiveRefs(st) |-> hp[r]]

(* The store's operations as actions.  The process constructs the store    *)
(* and loads it (bot.py lines 29-30) before anything else uses it.         *)

CfgLoad ==
    /\ LET r == LoadStore(file)
       IN  /\ store' = r.store
           /\ heap' = r.heap
           /\ file' = r.file
    /\ last' = [op |-> "load", tenant |-> 0, key |-> "", ok |-> TRUE]
    /\ nOps' = nOps + 1
    /\ UNCHANGED <<detVars, verVars>>

CfgGet(t) ==
    /\ store.loaded
    /\ LET r == GetGuildConfigOp(store, heap, file, t)
       IN  /\ store' = r.store
           /\ heap' = Collect(r.store, r.heap)
           /\ file' = r.file
    /\ last' = [op |-> "get_guild_config", tenant |-> t, key |-> "", ok |-> TRUE]
    /\ nOps' = nOps + 1
    /\ UNCHANGED <<detVars, verVars>>

CfgSet(t, key, value) ==
    /\ store.loaded
    /\ LET r == SetGuildValueOp(store, heap, file, t, key, value)
       IN  /\ store' = r.store
           /\ heap' = Collect(r.store, r.heap)
           /\ file' = r.file
           /\ last' = [op |-> "set_guild_value", tenant |-> t, key |-> key, ok |-> r.ok]
    /\ nOps' = nOps + 1
    /\ UNCHANGED <<detVars, verVars>>

\* commands.py `ignore add`: get the configuration, append unless present, save
CfgListAdd(t, field, x) ==
    /\ store.loaded
    /\ LET g == GetGuildConfigOp(store, heap, file, t)
           cfg == g.store.guild_configs[t]
       IN  /\ cfg.f[field].k = "ref"
           /\ store' = g.store
           /\ IF x \notin Range(g.heap[cfg.f[field].r])
              THEN LET hp2 == [g.heap EXCEPT ![cfg.f[field].r] = Append(@, x)]
                   IN  /\ heap' = Collect(g.store, hp2)
                       /\ file' = Save(g.store, hp2)
              ELSE /\ heap' = Collect(g.store, g.heap)
                   /\ file' = g.file
    /\ last' = [op |-> "list_add", tenant |-> t, key |-> field, ok |-> TRUE]
    /\ nOps' = nOps + 1
    /\ UNCHANGED <<detVars, verVars>>

\* commands.py `ignore remove`: get the configuration, remove if present, save
CfgListRemove(t, field, x) ==
    /\ store.loaded
    /\ LET g == GetGuildConfigOp(store, heap, file, t)
           cfg == g.store.guild_configs[t]
       IN  /\ cfg.f[field].k = "ref"
           /\ store' = g.store
           /\ IF x \in Range(g.heap[cfg.f[field].r])
              THEN LET hp2 == [g.heap EXCEPT ![cfg.f[field].r] = RemoveFirst(@, x)]
                   IN  /\ heap' = Collect(g.store, hp2)
                       /\ file' = Save(g.store, hp2)
              ELSE /\ heap' = Collect(g.store, g.heap)
                   /\ file' = g.file
    /\ last' = [op |-> "list_remove", tenant |-> t, key |-> field, ok |-> TRUE]
    /\ nOps' = nOps + 1
    /\ UNCHANGED <<detVars, verVars>>

\* the documents found at startup: none, a legacy one, a current one with an
\* unknown key and missing fields
LegacyFile ==
    [score_threshold |-> IntV(7), log_channel_id |-> IntV(5), obsolete_key |-> IntV(1)]

PartialFile ==
    [defaults |-> [score_threshold |-> IntV(8), obsolete_key |-> IntV(1)],
     guilds |-> <<<<IntToStr(12), [ban_enabled |-> BoolV(TRUE),
                                   ignore_role_ids |-> ListV(<<IntV(1)>>)]>>>>]

InitialFiles == {NoFile, LegacyFile, PartialFile}

\* the key/value pairs given to set_guild_value: each field with a value of its
\* kind, a non-field attribute of the class, and an unknown key
SetInputs ==
    {<<"score_threshold", IntV(7)>>, <<"ban_enabled", BoolV(TRUE)>>,
     <<"log_channel_id", IntV(5)>>, <<"log_channel_id", NoneV>>,
     <<"verify_fail_action", StrV("none")>>,
     <<"from_dict", StrV("x")>>, <<"no_such_key", StrV("x")>>}

InitCfg ==
    /\ now = 0
    /\ nOps = 0
    /\ gcfg = BaseConfig
    /\ detector = NoDetector
    /\ callLog = <<>>
    /\ last = NoOp
    /\ store = [default_config |-> MakeConfig(<<>>, <<>>).cfg, guild_configs |-> <<>>,
                loaded |-> FALSE]
    /\ heap = MakeConfig(<<>>, <<>>).heap
    /\ file \in InitialFiles
    /\ VerIdle

NextCfg ==
    \/ nOps < CfgMaxOps /\ CfgLoad
    \/ nOps < CfgMaxOps /\ \E t \in Tenants : CfgGet(t)
    \/ nOps < CfgMaxOps /\ \E t \in Tenants, kv \in SetInputs : CfgSet(t, kv[1], kv[2])
    \/ nOps < CfgMaxOps /\ \E t \in Tenants, x \in {IntV(1), IntV(2)} :
          CfgListAdd(t, "ignore_role_ids", x)
    \/ nOps < CfgMaxOps /\ \E t \in Tenants, x \in {IntV(1), IntV(2)} :
          CfgListRemove(t, "ignore_role_ids", x)

SpecCfg == InitCfg /\ [][NextCfg]_vars

\* what a store holds, lists by content: the default document and the tenant map
StoreView(st, hp) ==
    [defaults |-> AsDict(st.default_config, hp),
     guilds |-> [t \in DOMAIN st.guild_configs |-> AsDict(st.guild_configs[t], hp)]]

\* what a fresh ConfigStore over the document fl holds after load()
LoadedView(fl) == LET r == LoadStore(fl) IN StoreView(r.store, r.heap)

\* C8: an operation on tenant t (get_guild_config, set_guild_value, an append
\* to or a removal from a list-valued field) leaves every field of every other
\* tenant and of the default document as it was, and a fresh ConfigStore
\* loaded from the file then holds the same default document and the same
\* per-tenant values.
C8_TenantIsolation ==
    [][(last'.op \in {"get_guild_config", "set_guild_value", "list_add", "list_remove"}
        /\ nOps' # nOps)
       => /\ \A t \in DOMAIN store.guild_configs :
                t # last'.tenant =>
                    /\ t \in DOMAIN store'.guild_configs
                    /\ AsDict(store'.guild_configs[t], heap')
                         = AsDict(store.guild_configs[t], heap)
          /\ \A t \in DOMAIN store'.guild_configs :
                t \in DOMAIN store.guild_configs \/ t = last'.tenant
          /\ AsDict(store'.default_config, heap') = AsDict(store.default_config, heap)
          /\ LoadedView(file') = StoreView(store', heap')]_vars

\* C8 witness: an element was appended to a list of one tenant while another
\* tenant exists, and the two tenants' lists differ
C8_Witness ==
    /\ last.op = "list_add"
    /\ DOMAIN store.guild_configs = Tenants
    /\ \E t \in Tenants :
          /\ t # last.tenant
          /\ AsDict(store.guild_configs[t], heap).ignore_role_ids
               # AsDict(store.guild_configs[last.tenant], heap).ignore_role_ids

\* C9: save() followed by load() on a fresh ConfigStore over the same file
\* yields a default document and a tenant map equal to the saved ones, field
\* by field and tenant by tenant.
C9_SaveLoadRoundTrip ==
    store.loaded => LoadedView(Save(store, heap)) = StoreView(store, heap)

\* C9 witness: two tenants whose documents differ from each other and from the
\* default document, one with a non-empty list and a null field
C9_Witness ==
    /\ store.loaded
    /\ DOMAIN store.guild_configs = Tenants
    /\ AsDict(store.guild_configs[3], heap) # AsDict(store.guild_configs[12], heap)
    /\ \E t \in Tenants :
          /\ AsDict(store.guild_configs[t], heap).ignore_role_ids.v # <<>>
          /\ AsDict(store.guild_configs[t], heap).log_channel_id = NoneV
          /\ AsDict(store.guild_configs[t], heap) # AsDict(store.default_config, heap)

\* C19: load() on a document whose root has neither `defaults` nor `guilds`
\* takes the root as the default configuration (known keys kept, missing keys
\* at their defaults), empties the tenant map and rewrites the file in the
\* current shape, with `defaults` and an empty `guilds`; loading the rewritten
\* file takes the current-shape path and gives the same default configuration.
C19_LegacyMigration ==
    [][(/\ last'.op = "load" /\ nOps' # nOps
        /\ file # NoFile
        /\ "defaults" \notin DOMAIN file /\ "guilds" \notin DOMAIN file)
       => /\ AsDict(store'.default_config, heap')
               = [f \in CfgFields |->
                     IF f \in DOMAIN file THEN FromJson(file[f]) ELSE DefaultValue(f)]
          /\ store'.guild_configs = <<>>
          /\ DOMAIN file' = {"defaults", "guilds"}
          /\ file'.defaults = JsonObj(AsDict(store'.default_config, heap'))
          /\ file'.guilds = <<>>
          /\ LoadedView(file') = StoreView(store', heap')]_vars

\* C19 witness: the legacy document was loaded: its score_threshold and
\* log_channel_id are the defaults now, its unknown key is gone, the file has
\* the current shape
C19_Witness ==
    /\ last.op = "load"
    /\ nOps = 1
    /\ store.guild_configs = <<>>
    /\ AsDict(store.default_config, heap).score_threshold = LegacyFile.score_threshold
    /\ AsDict(store.default_config, heap).log_channel_id = LegacyFile.log_channel_id
    /\ AsDict(store.default_config, heap).ban_enabled = DefaultValue("ban_enabled")
    /\ DOMAIN file = {"defaults", "guilds"}
    /\ "obsolete_key" \notin DOMAIN file.defaults
    /\ file.defaults.score_threshold = LegacyFile.score_threshold

\* C17: set_guild_value returns false exactly when the key is not a field of
\* the configuration and true exactly when it is; a non-field attribute such
\* as from_dict is rejected with false.
C17_SetReturnsFieldness ==
    last.op = "set_guild_value" => (last.ok <=> last.key \in CfgFields)

\* C18: set_guild_value with a key that is not a field of the configuration
\* leaves the store as it was: the set of tenants, every tenant's
\* configuration, the default document and the file, also for a tenant never
\* referenced before.
C18_UnknownKeyNoChange ==
    [][(last'.op = "set_guild_value" /\ nOps' # nOps /\ last'.key \notin CfgFields)
       => /\ DOMAIN store'.guild_configs = DOMAIN store.guild_configs
          /\ StoreView(store', heap') = StoreView(store, heap)
          /\ file' = file]_vars

-----------------------------------------------------------------------------
(* VerificationManager (spamguard/verification.py).                        *)
(*                                                                         *)
(* A coroutine runs without interruption from one await to the next: each  *)
(* action below is one such segment of handle_member_join, verify_code,    *)
(* send_new_code or _timeout_job.  A platform call takes effect in the     *)
(* segment that issues it and the coroutine resumes in a later step, so    *)
(* other coroutines may run in between.  Task.cancel() ends a suspended    *)
(* coroutine: it is dropped from tasks and never runs again.               *)

\* the key (member.guild.id, member.id) of the member
VKey == <<3, 1>>

\* dt.timedelta(minutes=1), in seconds
Minute == 60

\* what generate_code may draw, and what a member may type
Codes == {<<"1">>, <<"2">>}

CodeInputs == {<<"1">>, <<"1", " ">>}

\* how far the wall clock moves between two segments
ClockSteps == {60}

\* the member when the bot first sees it: not yet in the guild
MemberProfiles ==
    {[bot |-> b, administrator |-> a, manage_guild |-> g, inGuild |-> FALSE,
      roles |-> {}] :
        <<b, a, g>> \in {<<FALSE, FALSE, FALSE>>, <<FALSE, TRUE, FALSE>>}}

VerConfigs ==
    {BaseConfig,
     [BaseConfig EXCEPT !.verify_fail_action = "timeout", !.verify_max_attempts = 0],
     [BaseConfig EXCEPT !.verify_fail_action = "none"],
     [BaseConfig EXCEPT !.verify_enabled = FALSE],
     [BaseConfig EXCEPT !.whitelist_user_ids = <<VKey[2]>>]}

\* dict.pop(k, None)
DRemove(d, k) == [x \in (DOMAIN d) \ {k} |-> d[x]]

\* the manager's own state as one value
Mgr ==
    [sessions |-> sessions, sobj |-> sobj, timeout_tasks |-> timeout_tasks,
     tasks |-> tasks, nSess |-> nSess]

\* a task identity no coroutine in flight and no entry of timeout_tasks has
FreshTask(used) ==
    CHOOSE i \in 1..(Cardinality(used) + 1) :
        i \notin used /\ \A j \in 1..(i - 1) : j \in used

NewTask(m) == FreshTask((DOMAIN m.tasks) \cup Range(m.timeout_tasks))

Task(kind, pc, sid, n) ==
    [kind |-> kind, key |-> VKey, pc |-> pc, sess |-> sid, wake |-> NoTime, n |-> n]

\* Task.cancel()
CancelTask(tk, id) == DRemove(tk, id)

\* clear_session that cancels the timer but keeps the session
ClearTimerOnly(m, key) ==
    [m EXCEPT !.timeout_tasks = DRemove(@, key),
              !.tasks = IF key \in DOMAIN m.timeout_tasks
                        THEN CancelTask(@, m.timeout_tasks[key]) ELSE @]

\* VerificationManager.clear_session
ClearSession(m, key) ==
    [m EXCEPT !.sessions = DRemove(@, key),
              !.timeout_tasks = DRemove(@, key),
              !.tasks = IF key \in DOMAIN m.timeout_tasks
                        THEN CancelTask(@, m.timeout_tasks[key]) ELSE @]

\* VerificationManager.start_session, with the code generate_code drew
StartSession(m, key, cfg, t, code) ==
    LET sid == m.nSess + 1
    IN  [m EXCEPT !.nSess = sid,
                  !.sobj = DPut(@, sid,
                               [key |-> key, code |-> code,
                                expires_at |-> t + Minute * Max(1, cfg.verify_timeout_minutes),
                                attempts |-> 0]),
                  !.sessions = DPut(@, key, sid)]

\* schedule_timeout that forgets the old task without cancelling it
ScheduleTimeoutNoCancel(m, sid, key) ==
    LET id == FreshTask((DOMAIN m.tasks) \cup Range(m.timeout_tasks))
    IN  [m EXCEPT !.tasks = DPut(@, id, Task("timer", "t_new", sid, 0)),
                  !.timeout_tasks = DPut(@, key, id)]

\* VerificationManager.schedule_timeout
ScheduleTimeout(m, sid, key) ==
    LET tk == IF key \in DOMAIN m.timeout_tasks
              THEN CancelTask(m.tasks, m.timeout_tasks[key]) ELSE m.tasks
        id == FreshTask((DOMAIN tk) \cup Range(DRemove(m.timeout_tasks, key)))
    IN  [m EXCEPT !.tasks = DPut(tk, id, Task("timer", "t_new", sid, 0)),
                  !.timeout_tasks = DPut(@, key, id)]

\* the session objects something still refers to
Referenced(m) == Range(m.sessions) \cup {m.tasks[i].sess : i \in DOMAIN m.tasks}

\* the manager state m becomes the next state
Commit(m) ==
    /\ sessions' = m.sessions
    /\ sobj' = [r \in (DOMAIN m.sobj) \cap Referenced(m) |-> m.sobj[r]]
    /\ timeout_tasks' = m.timeout_tasks
    /\ tasks' = m.tasks
    /\ nSess' = m.nSess

\* what a platform call on the member can answer
CallOutcomes(mem) == IF mem.inGuild THEN {"ok", "Forbidden"} ELSE {"HTTPException"}

FailStatus(out) ==
    IF out = "Forbidden" THEN "forbidden"
    ELSE IF out = "HTTPException" THEN "http_error"
    ELSE "not_supported"

\* VerificationManager.apply_failure_action: the member afterwards and the status
ApplyFailureAction(mem, cfg, out) ==
    LET action == cfg.verify_fail_action
    IN  IF action = "none" THEN [member |-> mem, status |-> "not_attempted"]
        ELSE IF action = "kick"
        THEN IF out = "ok"
             THEN [member |-> [mem EXCEPT !.inGuild = FALSE, !.roles = {}], status |-> "ok"]
             ELSE [member |-> mem, status |-> FailStatus(out)]
        ELSE IF action = "timeout"
        THEN IF out = "ok"
             THEN [member |-> mem, status |-> "ok"]
             ELSE [member |-> mem, status |-> FailStatus(out)]
        ELSE [member |-> mem, status |-> "not_attempted"]

Ev(ev, by, sid, status) == [ev |-> ev, by |-> by, sid |-> sid, status |-> status]

Ret(op, n, step, input, sid, ok, msg) ==
    [op |-> op, n |-> n, step |-> step, input |-> input, sid |-> sid, ok |-> ok, msg |-> msg]

IsStaff(mem) == mem.administrator \/ mem.manage_guild

\* the handler calls (not timers) that have not returned yet
Handlers == {i \in DOMAIN tasks : tasks[i].kind # "timer"}

verFrame == <<gcfg, detector, callLog, cfgVars>>

VTick(d) ==
    /\ now' = now + d
    /\ UNCHANGED <<nOps, last, verFrame, verVars>>

\* the member leaves the guild on their own (counted among the operations)
MemberLeaves ==
    /\ member.inGuild
    /\ member' = [member EXCEPT !.inGuild = FALSE, !.roles = {}]
    /\ nOps' = nOps + 1
    /\ last' = Ret("member_remove", nOps + 1, "return", <<>>, 0, TRUE, "")
    /\ UNCHANGED <<now, verFrame, sessions, sobj, timeout_tasks, tasks, nSess, vlog>>

\* the member's roles after lines 61-72 of handle_member_join
IsolatedRoles(roles, ur, vr, o1, o2) ==
    LET remove == ur /\ vr /\ "Verified" \in roles
        r1 == IF remove /\ o1 = "ok" THEN roles \ {"Verified"} ELSE roles
    IN  IF ur /\ ~(remove /\ o1 # "ok") /\ o2 = "ok" THEN r1 \cup {"Unverified"} ELSE r1

\* a filter that lets bots through
JoinFilteredNoBot(mem, cfg) ==
    \/ mem.administrator
    \/ mem.manage_guild
    \/ ~cfg.verify_enabled
    \/ VKey[2] \in Range(cfg.whitelist_user_ids)

\* handle_member_join, lines 40-52: the members that get no session
JoinFiltered(mem, cfg) ==
    \/ mem.bot
    \/ mem.administrator
    \/ mem.manage_guild
    \/ ~cfg.verify_enabled
    \/ VKey[2] \in Range(cfg.whitelist_user_ids)

\* handle_member_join, lines 39-79: the member joins, the filter, the ensure_*
\* calls and the role changes of the isolation.  None of these awaits touches
\* sessions or timers; the coroutine is then suspended in its last platform call.
JoinStart(ur, vr, o1, o2) ==
    /\ ~member.inGuild
    /\ nOps' = nOps + 1
    /\ IF JoinFiltered(member, gcfg)
       THEN /\ member' = [member EXCEPT !.inGuild = TRUE]
            /\ UNCHANGED <<sessions, sobj, timeout_tasks, tasks, nSess>>
            /\ last' = Ret("handle_member_join", nOps + 1, "return", <<>>, 0, TRUE, "filtered")
       ELSE /\ member' = [member EXCEPT !.inGuild = TRUE,
                                        !.roles = IsolatedRoles(@, ur, vr, o1, o2)]
            /\ Commit([Mgr EXCEPT !.tasks = DPut(@, NewTask(Mgr),
                                                Task("join", "j_open", 0, nOps + 1))])
            /\ last' = Ret("handle_member_join", nOps + 1, "call", <<>>, 0, TRUE, "pending")
    /\ UNCHANGED <<now, verFrame, vlog>>

\* handle_member_join, lines 81-82: start_session, then the notification
JoinOpen(id, code) ==
    /\ tasks[id].kind = "join" /\ tasks[id].pc = "j_open"
    /\ LET m1 == StartSession(Mgr, VKey, gcfg, now, code)
       IN  Commit([m1 EXCEPT !.tasks[id].pc = "j_notify", !.tasks[id].sess = m1.nSess])
    /\ UNCHANGED <<now, nOps, last, verFrame, member, vlog>>

\* handle_member_join, line 97: schedule_timeout, return
JoinSchedule(id) ==
    /\ tasks[id].kind = "join" /\ tasks[id].pc = "j_notify"
    /\ LET m1 == ScheduleTimeout(Mgr, tasks[id].sess, VKey)
       IN  Commit([m1 EXCEPT !.tasks = DRemove(@, id)])
    /\ last' = Ret("handle_member_join", tasks[id].n, "return", <<>>, tasks[id].sess, TRUE, "scheduled")
    /\ UNCHANGED <<now, nOps, verFrame, member, vlog>>

\* verify_code, lines 122-137: the mismatch branch up to its first await
VerifyMismatch(input, sid, n) ==
    LET attempts == sobj[sid].attempts + 1
        m1 == [Mgr EXCEPT !.sobj[sid].attempts = attempts]
        remaining == Max(1, gcfg.verify_max_attempts) - attempts
    IN  IF remaining <= 0
        THEN \E out \in CallOutcomes(member) :
                LET r == ApplyFailureAction(member, gcfg, out)
                IN  /\ member' = r.member
                    /\ vlog' = Append(vlog, Ev("fail", "verify", sid, r.status))
                    /\ Commit([m1 EXCEPT !.tasks = DPut(@, NewTask(m1),
                                                       Task("verify", "v_fail", sid, n))])
                    /\ last' = Ret("verify_code", n, "call", input, sid, FALSE, "pending")
        ELSE /\ Commit(m1)
             /\ last' = Ret("verify_code", n, "return", input, sid, FALSE, "mismatch")
             /\ UNCHANGED <<member, vlog>>

\* the member's roles after lines 139-159 of verify_code
VerifiedRoles(roles, ur, vr, o1, o2) ==
    LET r1 == IF ur /\ "Unverified" \in roles /\ o1 = "ok" THEN roles \ {"Unverified"} ELSE roles
    IN  IF vr /\ "Verified" \notin r1 /\ o2 = "ok" THEN r1 \cup {"Verified"} ELSE r1

\* verify_code, lines 139-178: the code matched; remove_roles, add_roles and
\* the channel calls are issued, the coroutine is suspended in them
VerifyMatch(input, sid, n) ==
    \E ur, vr \in BOOLEAN, o1, o2 \in CallOutcomes(member) :
        /\ member' = [member EXCEPT !.roles = VerifiedRoles(@, ur, vr, o1, o2)]
        /\ vlog' = Append(vlog, Ev("match", "verify", sid, "ok"))
        /\ Commit([Mgr EXCEPT !.tasks = DPut(@, NewTask(Mgr), Task("verify", "v_log", sid, n))])
        /\ last' = Ret("verify_code", n, "call", input, sid, TRUE, "pending")

\* a verify_code that looks for the session before it looks at verify_enabled
VerifyStartSessionFirst(input) ==
    /\ member.inGuild
    /\ nOps' = nOps + 1
    /\ UNCHANGED <<now, verFrame>>
    /\ LET n == nOps + 1
           sid == IF VKey \in DOMAIN sessions THEN sessions[VKey] ELSE 0
       IN  IF IsStaff(member)
           THEN /\ last' = Ret("verify_code", n, "return", input, 0, TRUE, "exempt")
                /\ UNCHANGED verVars
           ELSE IF sid = 0
           THEN /\ last' = Ret("verify_code", n, "return", input, 0, FALSE, "no_session")
                /\ UNCHANGED verVars
           ELSE IF now > sobj[sid].expires_at
           THEN /\ Commit(ClearSession(Mgr, VKey))
                /\ last' = Ret("verify_code", n, "return", input, sid, FALSE, "expired")
                /\ UNCHANGED <<member, vlog>>
           ELSE IF ~gcfg.verify_enabled
           THEN /\ last' = Ret("verify_code", n, "return", input, 0, TRUE, "disabled")
                /\ UNCHANGED verVars
           ELSE IF sobj[sid].code # Strip(input)
           THEN VerifyMismatch(input, sid, n)
           ELSE VerifyMatch(input, sid, n)

\* verify_code, lines 99-178: from the call to the first await or the return
VerifyStart(input) ==
    /\ member.inGuild
    /\ nOps' = nOps + 1
    /\ UNCHANGED <<now, verFrame>>
    /\ LET n == nOps + 1
           sid == IF VKey \in DOMAIN sessions THEN sessions[VKey] ELSE 0
       IN  IF IsStaff(member)
           THEN /\ last' = Ret("verify_code", n, "return", input, 0, TRUE, "exempt")
                /\ UNCHANGED verVars
           ELSE IF ~gcfg.verify_enabled
           THEN /\ last' = Ret("verify_code", n, "return", input, 0, TRUE, "disabled")
                /\ UNCHANGED verVars
           ELSE IF sid = 0
           THEN /\ last' = Ret("verify_code", n, "return", input, 0, FALSE, "no_session")
                /\ UNCHANGED verVars
           ELSE IF now > sobj[sid].expires_at
           THEN /\ Commit(ClearSession(Mgr, VKey))
                /\ last' = Ret("verify_code", n, "return", input, sid, FALSE, "expired")
                /\ UNCHANGED <<member, vlog>>
           ELSE IF sobj[sid].code # Strip(input)
           THEN VerifyMismatch(input, sid, n)
           ELSE VerifyMatch(input, sid, n)

\* verify_code, lines 128-136: back from apply_failure_action and the log
VerifyFailReturn(id) ==
    /\ tasks[id].kind = "verify" /\ tasks[id].pc = "v_fail"
    /\ LET m1 == ClearSession(Mgr, VKey)
       IN  Commit([m1 EXCEPT !.tasks = DRemove(@, id)])
    /\ last' = Ret("verify_code", tasks[id].n, "return", <<>>, tasks[id].sess, FALSE, "exhausted")
    /\ UNCHANGED <<now, nOps, verFrame, member, vlog>>

\* verify_code, lines 179-180: back from the platform calls and the log
VerifyFinish(id) ==
    /\ tasks[id].kind = "verify" /\ tasks[id].pc = "v_log"
    /\ LET m1 == ClearSession(Mgr, VKey)
       IN  Commit([m1 EXCEPT !.tasks = DRemove(@, id)])
    /\ last' = Ret("verify_code", tasks[id].n, "return", <<>>, tasks[id].sess, TRUE, "verified")
    /\ UNCHANGED <<now, nOps, verFrame, member, vlog>>

\* a send_new_code that always opens a fresh session
SendNewCodeRestart(code) ==
    /\ member.inGuild
    /\ nOps' = nOps + 1
    /\ IF ~gcfg.verify_enabled
       THEN /\ last' = Ret("send_new_code", nOps + 1, "return", <<>>, 0, FALSE, "disabled")
            /\ UNCHANGED <<sessions, sobj, timeout_tasks, tasks, nSess>>
       ELSE LET had == VKey \in DOMAIN sessions
                m1 == StartSession(Mgr, VKey, gcfg, now, code)
                m2 == ScheduleTimeout(m1, m1.sessions[VKey], VKey)
            IN  /\ Commit(m2)
                /\ last' = Ret("send_new_code", nOps + 1, "return", <<>>, m1.sessions[VKey], TRUE,
                               IF had THEN "rotated" ELSE "opened")
    /\ UNCHANGED <<now, verFrame, member, vlog>>

\* send_new_code: everything it changes happens before its first await
SendNewCode(code) ==
    /\ member.inGuild
    /\ nOps' = nOps + 1
    /\ IF ~gcfg.verify_enabled
       THEN /\ last' = Ret("send_new_code", nOps + 1, "return", <<>>, 0, FALSE, "disabled")
            /\ UNCHANGED <<sessions, sobj, timeout_tasks, tasks, nSess>>
       ELSE LET had == VKey \in DOMAIN sessions
                m1 == IF had
                      THEN [Mgr EXCEPT !.sobj[sessions[VKey]] =
                               [@ EXCEPT !.code = code,
                                         !.expires_at = now + Minute * Max(1, gcfg.verify_timeout_minutes)]]
                      ELSE StartSession(Mgr, VKey, gcfg, now, code)
                m2 == ScheduleTimeout(m1, m1.sessions[VKey], VKey)
            IN  /\ Commit(m2)
                /\ last' = Ret("send_new_code", nOps + 1, "return", <<>>, m1.sessions[VKey], TRUE,
                               IF had THEN "rotated" ELSE "opened")
    /\ UNCHANGED <<now, verFrame, member, vlog>>

\* int(x) for x = diff seconds less a fraction of a second (late) or exactly
\* diff seconds: truncation towards zero
TruncSeconds(diff, late) == IF late /\ diff > 0 THEN diff - 1 ELSE diff

\* _timeout_job, lines 531-535: the sleep length, then asleep.  `now` is the
\* whole-second part of the wall clock; late tells that datetime.now() reads a
\* fraction of a second more than the instant expires_at was computed from.
TimerStartAt(id, late) ==
    /\ tasks[id].kind = "timer" /\ tasks[id].pc = "t_new"
    /\ LET seconds == Max(1, TruncSeconds(sobj[tasks[id].sess].expires_at - now, late))
       IN  Commit([Mgr EXCEPT !.tasks[id].pc = "t_sleep", !.tasks[id].wake = now + seconds])
    /\ UNCHANGED <<now, nOps, last, verFrame, member, vlog>>

\* _timeout_job started at the very clock reading expires_at was computed from
TimerStart(id) == TimerStartAt(id, FALSE)

\* _timeout_job, lines 539-553: awake; found tells whether guild and member
\* are in the cache
TimerWake(id, found, out) ==
    /\ tasks[id].kind = "timer" /\ tasks[id].pc = "t_sleep"
    /\ now >= tasks[id].wake
    /\ found \in (IF member.inGuild THEN {TRUE} ELSE BOOLEAN)
    /\ out \in CallOutcomes(member)
    /\ IF VKey \notin DOMAIN sessions
       THEN /\ Commit([Mgr EXCEPT !.tasks = DRemove(@, id)])
            /\ UNCHANGED <<member, vlog>>
       ELSE IF ~found
       THEN /\ LET m1 == ClearSession(Mgr, VKey)
               IN  Commit([m1 EXCEPT !.tasks = DRemove(@, id)])
            /\ UNCHANGED <<member, vlog>>
       ELSE LET r == ApplyFailureAction(member, gcfg, out)
            IN  /\ member' = r.member
                /\ vlog' = Append(vlog, Ev("fail", "timer", sessions[VKey], r.status))
                /\ Commit([Mgr EXCEPT !.tasks[id].pc = "t_fail"])
    /\ UNCHANGED <<now, nOps, last, verFrame>>

\* a timer that ends after the failure action without clearing the session
TimerFinishNoClear(id) ==
    /\ tasks[id].kind = "timer" /\ tasks[id].pc = "t_fail"
    /\ Commit([Mgr EXCEPT !.tasks = DRemove(@, id)])
    /\ UNCHANGED <<now, nOps, last, verFrame, member, vlog>>

\* _timeout_job, lines 554-561: back from apply_failure_action and the log
TimerFinish(id) ==
    /\ tasks[id].kind = "timer" /\ tasks[id].pc = "t_fail"
    /\ LET m1 == ClearSession(Mgr, VKey)
       IN  Commit([m1 EXCEPT !.tasks = DRemove(@, id)])
    /\ UNCHANGED <<now, nOps, last, verFrame, member, vlog>>

InitVer ==
    /\ now = 0
    /\ nOps = 0
    /\ gcfg \in VerConfigs
    /\ detector = NoDetector
    /\ callLog = <<>>
    /\ last = NoOp
    /\ CfgIdle
    /\ member \in MemberProfiles
    /\ sessions = <<>>
    /\ sobj = <<>>
    /\ timeout_tasks = <<>>
    /\ tasks = <<>>
    /\ nSess = 0
    /\ vlog = <<>>

NextVer ==
    \/ \E d \in ClockSteps : now + d <= VMaxTime /\ VTick(d)
    \/ nOps < VMaxOps /\ MemberLeaves
    \/ nOps < VMaxOps /\ Cardinality(Handlers) < VMaxConc
          /\ \E ur, vr \in BOOLEAN, o1, o2 \in {"ok", "Forbidden"} : JoinStart(ur, vr, o1, o2)
    \/ \E id \in DOMAIN tasks, code \in Codes : JoinOpen(id, code)
    \/ \E id \in DOMAIN tasks : JoinSchedule(id)
    \/ nOps < VMaxOps /\ Cardinality(Handlers) < VMaxConc /\ \E input \in CodeInputs : VerifyStart(input)
    \/ \E id \in DOMAIN tasks : VerifyFailReturn(id)
    \/ \E id \in DOMAIN tasks : VerifyFinish(id)
    \/ nOps < VMaxOps /\ \E code \in Codes : SendNewCode(code)
    \/ \E id \in DOMAIN tasks : TimerStart(id)
    \/ \E id \in DOMAIN tasks, found \in BOOLEAN, out \in {"ok", "Forbidden", "HTTPException"} :
          TimerWake(id, found, out)
    \/ \E id \in DOMAIN tasks : TimerFinish(id)

SpecVer == InitVer /\ [][NextVer]_vars

\* the timers of key k that are neither finished nor cancelled
LiveTimers(k) == {i \in DOMAIN tasks : tasks[i].kind = "timer" /\ tasks[i].key = k}

\* the sessions stored for key k
SessionsOf(k) == {s \in Range(sessions) : s \in DOMAIN sobj /\ sobj[s].key = k}

\* C3: in every reachable state, under any interleaving of handle_member_join,
\* verify_code, send_new_code and timer jobs at their suspension points, there
\* is at most one verification session and at most one non-cancelled expiry
\* timer per (tenantId, userId); the live timer is the one timeout_tasks holds.
C3_OneSessionOneTimer ==
    /\ Cardinality(SessionsOf(VKey)) <= 1
    /\ Cardinality(LiveTimers(VKey)) <= 1
    /\ \A i \in LiveTimers(VKey) :
          VKey \in DOMAIN timeout_tasks /\ timeout_tasks[VKey] = i

\* C3 witness: send_new_code has replaced the timer of an existing session, and
\* one session and one live timer are left
C3_Witness ==
    /\ last.op = "send_new_code"
    /\ last.msg = "rotated"
    /\ Cardinality(SessionsOf(VKey)) = 1
    /\ Cardinality(LiveTimers(VKey)) = 1
    /\ \E i \in Handlers : tasks[i].kind = "join" /\ tasks[i].pc = "j_notify"

\* C4: for each verification session the failure action is applied at most
\* once: no member receives the failure action twice for one session, whether
\* from the expiry timer, the exhaustion branch of verify_code or concurrent
\* verify_code calls.
C4_FailureAtMostOnce ==
    \A i, j \in DOMAIN vlog :
        (i < j /\ vlog[i].ev = "fail" /\ vlog[j].ev = "fail" /\ vlog[i].sid = vlog[j].sid)
            => ~(vlog[i].status = "ok" /\ vlog[j].status = "ok")

\* C5: once verify_code has matched the correct code for a member's session,
\* the expiry timer never applies the failure action to that member.
C5_NoTimerFailureAfterMatch ==
    \A i, j \in DOMAIN vlog :
        (i < j /\ vlog[i].ev = "match" /\ vlog[i].sid = vlog[j].sid)
            => ~(vlog[j].ev = "fail" /\ vlog[j].by = "timer" /\ vlog[j].status = "ok")

\* C6: for a pending session (member not exempt, verification enabled, not
\* expired) a verify_code call with a code different from the session code
\* increments attempts by one; below max(1, verifyMaxAttempts) it returns
\* ok=false and leaves the session; on reaching it the call applies the failure
\* action, and when that call returns, ok=false and the session is cleared; a
\* verify_code call made when no session exists reports that none exists.
C6_MismatchAndExhaustion ==
    [][/\ (/\ nOps' = nOps + 1
           /\ last'.op = "verify_code"
           /\ ~IsStaff(member)
           /\ gcfg.verify_enabled)
          => IF VKey \notin DOMAIN sessions
             THEN /\ last'.step = "return" /\ ~last'.ok /\ last'.msg = "no_session"
                  /\ UNCHANGED verVars
             ELSE LET sid == sessions[VKey]
                  IN  (now <= sobj[sid].expires_at /\ sobj[sid].code # Strip(last'.input))
                      => /\ sid \in DOMAIN sobj'
                         /\ sobj'[sid].attempts = sobj[sid].attempts + 1
                         /\ IF sobj'[sid].attempts >= Max(1, gcfg.verify_max_attempts)
                            THEN /\ Len(vlog') = Len(vlog) + 1
                                 /\ vlog'[Len(vlog')].ev = "fail"
                                 /\ vlog'[Len(vlog')].by = "verify"
                                 /\ vlog'[Len(vlog')].sid = sid
                                 /\ \E i \in DOMAIN tasks' :
                                       tasks'[i].n = nOps' /\ tasks'[i].pc = "v_fail"
                            ELSE /\ last'.step = "return" /\ ~last'.ok
                                 /\ vlog' = vlog
                                 /\ sessions' = sessions
       /\ \A i \in DOMAIN tasks :
             (tasks[i].pc = "v_fail" /\ i \notin DOMAIN tasks')
                => /\ last'.op = "verify_code" /\ last'.step = "return" /\ ~last'.ok
                   /\ VKey \notin DOMAIN sessions']_vars

\* C6 witness: with verifyMaxAttempts = 0 (one attempt allowed) the first wrong
\* code applied the failure action, and the call after it found no session
C6_Witness ==
    /\ gcfg.verify_max_attempts = 0
    /\ nSess = 1
    /\ nOps = 3
    /\ last.op = "verify_code" /\ last.msg = "no_session"
    /\ Len(vlog) = 1
    /\ vlog[1].ev = "fail" /\ vlog[1].by = "verify"

\* C7: once verify_code, called with the session's code while now <=
\* expiresAt, has returned ok=true, that session is no longer stored, none of
\* its timers is live, and its timer has applied no failure action for it.
C7_SuccessClearsWithoutFailure ==
    (last.op = "verify_code" /\ last.step = "return" /\ last.ok /\ last.sid # 0)
        => /\ last.sid \notin Range(sessions)
           /\ \A t \in LiveTimers(VKey) : tasks[t].sess # last.sid
           /\ \A i \in DOMAIN vlog :
                 ~(vlog[i].ev = "fail" /\ vlog[i].by = "timer" /\ vlog[i].sid = last.sid
                   /\ vlog[i].status = "ok")

-----------------------------------------------------------------------------
(* The eligibility filter of handle_member_join: ordinary members, bots,   *)
(* administrators and server managers, who were in the guild before or     *)
(* not, with verification enabled, disabled, or the member whitelisted     *)

JoinMaxOps == 3

JoinProfiles ==
    {[bot |-> p[1], administrator |-> p[2], manage_guild |-> p[3], inGuild |-> g,
      roles |-> {}] :
        p \in {<<FALSE, FALSE, FALSE>>, <<TRUE, FALSE, FALSE>>,
               <<FALSE, TRUE, FALSE>>, <<FALSE, FALSE, TRUE>>},
        g \in BOOLEAN}

JoinConfigs ==
    {BaseConfig,
     [BaseConfig EXCEPT !.verify_enabled = FALSE],
     [BaseConfig EXCEPT !.whitelist_user_ids = <<VKey[2]>>]}

InitJoin ==
    /\ now = 0
    /\ nOps = 0
    /\ gcfg \in JoinConfigs
    /\ detector = NoDetector
    /\ callLog = <<>>
    /\ last = NoOp
    /\ CfgIdle
    /\ member \in JoinProfiles
    /\ sessions = <<>>
    /\ sobj = <<>>
    /\ timeout_tasks = <<>>
    /\ tasks = <<>>
    /\ nSess = 0
    /\ vlog = <<>>

NextJoin ==
    \/ \E d \in ClockSteps : now + d <= VMaxTime /\ VTick(d)
    \/ nOps < JoinMaxOps /\ MemberLeaves
    \/ nOps < JoinMaxOps /\ Cardinality(Handlers) < VMaxConc
          /\ \E o2 \in {"ok", "Forbidden"} : JoinStart(TRUE, TRUE, "ok", o2)
    \/ \E id \in DOMAIN tasks, code \in Codes : JoinOpen(id, code)
    \/ \E id \in DOMAIN tasks : JoinSchedule(id)
    \/ nOps < JoinMaxOps /\ \E code \in Codes : SendNewCode(code)
    \/ \E id \in DOMAIN tasks : TimerStart(id)
    \/ \E id \in DOMAIN tasks, found \in BOOLEAN, out \in {"ok", "Forbidden"} :
          TimerWake(id, found, out)
    \/ \E id \in DOMAIN tasks : TimerFinish(id)

SpecJoin == InitJoin /\ [][NextJoin]_vars

\* C20: handle_member_join on a member that is a bot or a server
\* administrator or is listed in whitelist_user_ids, or with verify_enabled
\* false, creates no session and schedules no timer: the session map and the
\* timer map are as they were.
C20_FilteredJoinNoSession ==
    [][(/\ last'.op = "handle_member_join" /\ nOps' # nOps
        /\ \/ member.bot
           \/ member.administrator
           \/ VKey[2] \in Range(gcfg.whitelist_user_ids)
           \/ ~gcfg.verify_enabled)
       => /\ sessions' = sessions
          /\ sobj' = sobj
          /\ timeout_tasks' = timeout_tasks
          /\ tasks' = tasks
          /\ nSess' = nSess]_vars

\* C20 witness: a bot that had a session and a timer (from send_new_code)
\* joined again and the join was filtered, session and timer still there
C20_Witness ==
    /\ last.op = "handle_member_join"
    /\ last.msg = "filtered"
    /\ member.bot
    /\ member.inGuild
    /\ VKey \in DOMAIN sessions
    /\ VKey \in DOMAIN timeout_tasks

\* C20 witness for verification disabled: an ordinary member's join filtered
C20_WitnessDisabled ==
    /\ last.op = "handle_member_join"
    /\ last.msg = "filtered"
    /\ ~gcfg.verify_enabled
    /\ ~IsStaff(member) /\ ~member.bot
    /\ sessions = <<>>
    /\ tasks = <<>>

-----------------------------------------------------------------------------
(* A member who never submits a code: joins, leaves, re-joins and asks for *)
(* new codes, with platform calls that fail, under a fair event loop and a *)
(* clock that keeps running while a timer sleeps                           *)

LiveMaxOps == 2

LiveConfigs == {BaseConfig, [BaseConfig EXCEPT !.verify_fail_action = "timeout"]}

InitLive ==
    /\ now = 0
    /\ nOps = 0
    /\ gcfg \in LiveConfigs
    /\ detector = NoDetector
    /\ callLog = <<>>
    /\ last = NoOp
    /\ CfgIdle
    /\ member = [bot |-> FALSE, administrator |-> FALSE, manage_guild |-> FALSE,
                 inGuild |-> FALSE, roles |-> {}]
    /\ sessions = <<>>
    /\ sobj = <<>>
    /\ timeout_tasks = <<>>
    /\ tasks = <<>>
    /\ nSess = 0
    /\ vlog = <<>>

\* the clock: time passes, also past VMaxTime while asyncio.sleep is pending
LiveTick ==
    \E d \in ClockSteps :
        /\ \/ now + d <= VMaxTime
           \/ \E id \in DOMAIN tasks :
                 tasks[id].kind = "timer" /\ tasks[id].pc = "t_sleep" /\ tasks[id].wake > now
        /\ VTick(d)

\* the codes play no part when none is submitted: generate_code draws one value
LiveJoinOpen == \E id \in DOMAIN tasks : JoinOpen(id, <<"1">>)

LiveJoinSchedule == \E id \in DOMAIN tasks : JoinSchedule(id)

LiveTimerStart == \E id \in DOMAIN tasks : TimerStart(id)

LiveTimerWake ==
    \E id \in DOMAIN tasks, found \in BOOLEAN, out \in {"ok", "Forbidden", "HTTPException"} :
        TimerWake(id, found, out)

LiveTimerFinish == \E id \in DOMAIN tasks : TimerFinish(id)

NextLive ==
    \/ LiveTick
    \/ nOps < LiveMaxOps /\ MemberLeaves
    \/ nOps < LiveMaxOps /\ Cardinality(Handlers) < VMaxConc
          /\ \E o2 \in {"ok", "Forbidden"} : JoinStart(TRUE, TRUE, "ok", o2)
    \/ LiveJoinOpen
    \/ LiveJoinSchedule
    \/ nOps < LiveMaxOps /\ SendNewCode(<<"1">>)
    \/ LiveTimerStart
    \/ LiveTimerWake
    \/ LiveTimerFinish

\* the event loop runs every coroutine that can run, and time passes
SpecLive ==
    /\ InitLive
    /\ [][NextLive]_vars
    /\ WF_vars(LiveTick)
    /\ WF_vars(LiveJoinOpen)
    /\ WF_vars(LiveJoinSchedule)
    /\ WF_vars(LiveTimerStart)
    /\ WF_vars(LiveTimerWake)
    /\ WF_vars(LiveTimerFinish)

\* C21: every verification session that is opened is eventually removed when
\* the member never submits a code, under fair scheduling of the timer and
\* whatever errors the platform calls of the join, the notification and the
\* failure action return.
C21_SessionEventuallyRemoved ==
    \A s \in 1 .. LiveMaxOps : (s \in Range(sessions)) ~> (s \notin Range(sessions))

\* C21 witness: the timer applied the failure action to the member's first
\* session, the platform refused it, and no session and no task is left
C21_Witness ==
    /\ nSess = 1
    /\ Ev("fail", "timer", 1, "forbidden") \in Range(vlog)
    /\ member.inGuild
    /\ sessions = <<>>
    /\ tasks = <<>>

\* the expiry a session opened or rotated at time t gets
ExpiresAt(cfg, t) == t + Minute * Max(1, cfg.verify_timeout_minutes)

C22_WitnessOpened ==
    /\ last.op = "send_new_code"
    /\ last.msg = "opened"
    /\ VKey \in DOMAIN sessions
    /\ sobj[sessions[VKey]].attempts = 0
    /\ Cardinality(LiveTimers(VKey)) = 1

-----------------------------------------------------------------------------
(* verify_code while an administrator switches verification on and off.    *)
(* get_guild_config hands out the tenant's one configuration object, so    *)
(* what `verify configure` assigns is what the next handler reads.         *)

PreMaxOps == 3

\* commands.py `security verify configure enabled:<bool>`: the field is
\* assigned on the tenant's configuration (the document written by save() is
\* the store's, kept in `file`, which the verification handlers never read)
VerifyConfigure(enabled) ==
    /\ gcfg' = [gcfg EXCEPT !.verify_enabled = enabled]
    /\ nOps' = nOps + 1
    /\ last' = Ret("verify_configure", nOps + 1, "return", <<>>, 0, TRUE, "updated")
    /\ UNCHANGED <<now, detector, callLog, cfgVars, verVars>>

InitPre ==
    /\ now = 0
    /\ nOps = 0
    /\ gcfg = BaseConfig
    /\ detector = NoDetector
    /\ callLog = <<>>
    /\ last = NoOp
    /\ CfgIdle
    /\ member \in MemberProfiles
    /\ sessions = <<>>
    /\ sobj = <<>>
    /\ timeout_tasks = <<>>
    /\ tasks = <<>>
    /\ nSess = 0
    /\ vlog = <<>>

NextPre ==
    \/ \E d \in ClockSteps : now + d <= VMaxTime /\ VTick(d)
    \/ nOps < PreMaxOps /\ Cardinality(Handlers) < VMaxConc /\ JoinStart(TRUE, TRUE, "ok", "ok")
    \/ \E id \in DOMAIN tasks, code \in Codes : JoinOpen(id, code)
    \/ \E id \in DOMAIN tasks : JoinSchedule(id)
    \/ nOps < PreMaxOps /\ \E enabled \in BOOLEAN : VerifyConfigure(enabled)
    \/ nOps < PreMaxOps /\ Cardinality(Handlers) < VMaxConc /\ \E input \in CodeInputs : VerifyStart(input)
    \/ \E id \in DOMAIN tasks : VerifyFailReturn(id)
    \/ \E id \in DOMAIN tasks : VerifyFinish(id)
    \/ \E id \in DOMAIN tasks : TimerStart(id)
    \/ \E id \in DOMAIN tasks, found \in BOOLEAN, out \in {"ok", "Forbidden", "HTTPException"} :
          TimerWake(id, found, out)
    \/ \E id \in DOMAIN tasks : TimerFinish(id)

SpecPre == InitPre /\ [][NextPre]_vars

\* C23: for a member the staff exemption does not cover, verify_code checks
\* in this order: verification disabled -> ok = true, session and timer
\* untouched; else no session -> ok = false; else now > expires_at -> the
\* session is cleared, ok = false, attempts is not incremented and no failure
\* action is applied.
C23_PreconditionOrder ==
    [][(last'.op = "verify_code" /\ last'.n = nOps + 1 /\ nOps' = nOps + 1
            /\ ~IsStaff(member))
        => IF ~gcfg.verify_enabled
           THEN /\ last'.step = "return" /\ last'.ok
                /\ UNCHANGED verVars
           ELSE IF VKey \notin DOMAIN sessions
           THEN /\ last'.step = "return" /\ ~last'.ok
                /\ UNCHANGED verVars
           ELSE IF now > sobj[sessions[VKey]].expires_at
           THEN /\ last'.step = "return" /\ ~last'.ok
                /\ VKey \notin DOMAIN sessions'
                /\ VKey \notin DOMAIN timeout_tasks'
                /\ \A sid \in (DOMAIN sobj) \cap (DOMAIN sobj') :
                      sobj'[sid].attempts = sobj[sid].attempts
                /\ vlog' = vlog
                /\ member' = member
           ELSE TRUE]_vars

\* C23 witness: verification was switched off while a session with its timer
\* was pending; verify_code answered true and both are still there
C23_Witness ==
    /\ last.op = "verify_code"
    /\ last.msg = "disabled"
    /\ last.ok
    /\ ~IsStaff(member)
    /\ VKey \in DOMAIN sessions
    /\ Cardinality(LiveTimers(VKey)) = 1

\* C23, the expired case reached: verify_code found the session past its
\* expires_at and cleared it
C23_WitnessExpired ==
    /\ last.op = "verify_code"
    /\ last.msg = "expired"
    /\ ~last.ok
    /\ gcfg.verify_enabled
    /\ VKey \notin DOMAIN sessions

\* C23, the no-session case reached with verification enabled
C23_WitnessNoSession ==
    /\ last.op = "verify_code"
    /\ last.msg = "no_session"
    /\ ~last.ok
    /\ gcfg.verify_enabled

-----------------------------------------------------------------------------
(* The histories after score: joins, messages with and without URLs, one   *)
(* URL that urlparse rejects, every window 1 or 2 seconds wide.            *)

PruneMaxOps == 3

PruneConfigs ==
    {[BaseConfig EXCEPT !.window_sec = w, !.duplicate_window_sec = w,
                        !.url_repeat_window_sec = w, !.raid_join_window_sec = w,
                        !.raid_message_window_sec = w, !.new_member_window_sec = 1,
                        !.max_msg_in_window = 9, !.dup_threshold = 9,
                        !.url_threshold = 9, !.url_repeat_threshold = 9,
                        !.raid_join_threshold = 9] :
        w \in {1, 2}}

PruneContents == {<<"a">>, <<"http://", "x", ".", "com">>, <<"http://", "[">>}

InitPrune ==
    /\ CfgIdle
    /\ VerIdle
    /\ now = 0
    /\ nOps = 0
    /\ gcfg \in PruneConfigs
    /\ detector = NoDetector
    /\ callLog = <<>>
    /\ last = NoOp

NextPrune ==
    \/ now < MaxTime /\ Tick
    \/ nOps < PruneMaxOps /\ \E u \in Users : RegisterJoin(u)
    \/ nOps < PruneMaxOps /\ \E u \in Users, c \in PruneContents, j \in JoinedAts :
            ScoreCall(Snapshot(u, c, 0, 2 * Day, j))

SpecPrune == InitPrune /\ [][NextPrune]_vars

\* the first entry of each history the score call for user u at time t is to
\* have pruned lies inside that history's window
FirstInWindow(det, cfg, u, t) ==
    /\ LET h == DGet(det.user_messages, u)
       IN  h # <<>> => h[1] >= t - cfg.window_sec
    /\ LET h == DGet(det.user_duplicates, u)
       IN  h # <<>> => h[1][1] >= t - cfg.duplicate_window_sec
    /\ LET h == DGet(det.user_urls, u)
       IN  h # <<>> => h[1][1] >= t - cfg.url_repeat_window_sec
    /\ det.recent_joins # <<>>
          => det.recent_joins[1][1] >= t - cfg.raid_join_window_sec
    /\ det.recent_new_user_messages # <<>>
          => det.recent_new_user_messages[1] >= t - cfg.raid_message_window_sec

\* C24: after every score call with time t, the first element of the scored
\* user's user_messages, user_duplicates and user_urls and of recent_joins and
\* recent_new_user_messages has a timestamp >= t minus the respective window.
C24_FirstInWindow ==
    last.op \in {"score", "score_raised"}
        => FirstInWindow(detector, gcfg, last.user, last.t)

\* the same for the score calls that return a result
C24_FirstInWindowReturned ==
    last.op = "score" => FirstInWindow(detector, gcfg, last.user, last.t)

\* a returned score call that pruned: an entry exactly on the cutoff is the
\* first of recent_joins, an older one is gone
C24_ReturnedPruned ==
    /\ last.op = "score"
    /\ detector.recent_joins # <<>>
    /\ detector.recent_joins[1][1] = last.t - gcfg.raid_join_window_sec
    /\ \E i \in DOMAIN callLog :
          callLog[i].op = "register_join" /\ callLog[i].t < last.t - gcfg.raid_join_window_sec

-----------------------------------------------------------------------------
(* The admin commands (spamguard/commands.py) on the configuration store.  *)
(* Every command first passes ensure_manage_and_guild, which calls         *)
(* get_guild_config; the invoker has Manage Server and is in the guild.    *)

AdmMaxOps == 3

\* int(raw): surrounding whitespace, an optional sign, decimal digits
ParseInt(raw) ==
    LET s == Strip(raw)
        neg == s # <<>> /\ s[1] = "-"
        digits == IF s # <<>> /\ s[1] \in {"-", "+"} THEN Tail(s) ELSE s
    IN  IF digits # <<>> /\ \A i \in DOMAIN digits : digits[i] \in Range(Digits)
        THEN [ok |-> TRUE, v |-> IntV(IF neg THEN 0 - StrToInt(digits) ELSE StrToInt(digits))]
        ELSE [ok |-> FALSE, v |-> NoneV]

\* utils.parse_value: ok is false where the code raises ValueError
ParseValue(current, raw) ==
    IF current.k = "bool"
    THEN [ok |-> TRUE,
          v |-> BoolV(LowerStr(raw) \in {<<"1">>, <<"true">>, <<"yes">>, <<"on">>})]
    ELSE IF current.k = "int" THEN ParseInt(raw)
    ELSE IF current.k = "none"
    THEN IF LowerStr(raw) \in {<<"none">>, <<"null">>}
         THEN [ok |-> TRUE, v |-> NoneV]
         ELSE ParseInt(raw)
    ELSE [ok |-> TRUE, v |-> StrV(raw)]

\* the keys `set` refuses and refers to the subcommands, commands.py lines 261-269
ListKeys == {"ignore_role_ids", "suspicious_tlds"}

\* security_runtime.EDITABLE_SECURITY_RULES, the fields modelled here
EditableSecurityRules ==
    {"score_threshold", "warning_threshold", "timeout_threshold", "ban_threshold",
     "ban_enabled", "log_channel_id", "verify_fail_action"}

\* getattr(cfg, key) where hasattr(cfg, key)
GetAttr(cfg, key) ==
    IF key \in CfgFields THEN cfg.f[key]
    ELSE IF key \in DOMAIN cfg.extra THEN cfg.extra[key]
    ELSE [k |-> "method"]

\* what the command hands back: the store, its lists, the file, the reply
Reply(g, ok, msg) == [store |-> g.store, heap |-> g.heap, file |-> g.file, ok |-> ok, msg |-> msg]

\* `set key value` (rule = FALSE) and `security rule set key value` (rule = TRUE)
SetCommand(st, hp, fl, guild_id, rule, key, raw) ==
    LET g == GetGuildConfigOp(st, hp, fl, guild_id)
        cfg == g.store.guild_configs[guild_id]
    IN  IF rule /\ key \notin EditableSecurityRules THEN Reply(g, FALSE, "not_editable")
        ELSE IF ~rule /\ ~HasAttr(cfg, key) THEN Reply(g, FALSE, "unknown_key")
        ELSE IF ~rule /\ key \in ListKeys THEN Reply(g, FALSE, "use_subcommand")
        ELSE LET p == ParseValue(GetAttr(cfg, key), raw)
             IN  IF ~p.ok THEN Reply(g, FALSE, "invalid_value")
                 ELSE Reply(SetGuildValueOp(g.store, g.heap, g.file, guild_id, key, p.v),
                            TRUE, "updated")

CmdSet(t, rule, key, raw) ==
    /\ store.loaded
    /\ LET r == SetCommand(store, heap, file, t, rule, key, raw)
       IN  /\ store' = r.store
           /\ heap' = Collect(r.store, r.heap)
           /\ file' = r.file
           /\ last' = [op |-> IF rule THEN "security_rule_set" ELSE "set", tenant |-> t,
                       key |-> key, ok |-> r.ok, msg |-> r.msg, raw |-> raw]
    /\ nOps' = nOps + 1
    /\ UNCHANGED <<detVars, verVars>>

\* an option of `setting bulk` that was not given
NotGiven == 0

\* `setting bulk`: the options given are assigned, then one save()
CmdBulk(t, timeout_threshold, ban_threshold) ==
    /\ store.loaded
    /\ LET g == GetGuildConfigOp(store, heap, file, t)
           cfg == g.store.guild_configs[t]
           c1 == IF timeout_threshold = NotGiven THEN cfg
                 ELSE SetAttr(cfg, "timeout_threshold", IntV(timeout_threshold))
           c2 == IF ban_threshold = NotGiven THEN c1
                 ELSE SetAttr(c1, "ban_threshold", IntV(ban_threshold))
           st2 == [g.store EXCEPT !.guild_configs[t] = c2]
           updates == timeout_threshold # NotGiven \/ ban_threshold # NotGiven
       IN  /\ store' = st2
           /\ heap' = Collect(st2, g.heap)
           /\ file' = IF updates THEN Save(st2, g.heap) ELSE g.file
           /\ last' = [op |-> "setting_bulk", tenant |-> t, key |-> "", ok |-> updates,
                       msg |-> IF updates THEN "updated" ELSE "nothing_given", raw |-> <<>>]
    /\ nOps' = nOps + 1
    /\ UNCHANGED <<detVars, verVars>>

\* the id of the role create_role makes
NewRoleId == 9

\* how the platform side of `setting log_setup` can go: the bot lacks a
\* permission, create_role fails, channel.edit is refused or fails, all is well
SetupOutcomes == {"no_permission", "role_failed", "Forbidden", "HTTPException", "ok"}

\* `setting log_setup channel restrict`, with apply_log_visibility_restriction
\* and ensure_log_viewer_role; found tells whether the role of
\* log_viewer_role_id still exists in the guild: the store the handler leaves,
\* whether it reached a save(), and its reply
LogSetup(g, t, channel, restrict, found, out) ==
    LET cfg == SetAttr(g.store.guild_configs[t], "log_channel_id", IntV(channel))
        st1 == [g.store EXCEPT !.guild_configs[t] = cfg]
        hasRole == cfg.f["log_viewer_role_id"].k = "int" /\ found
        role == IF hasRole THEN cfg.f["log_viewer_role_id"] ELSE IntV(NewRoleId)
        stR == [g.store EXCEPT !.guild_configs[t] = SetAttr(cfg, "log_viewer_role_id", role)]
        unsaved == [store |-> st1, saved |-> FALSE, ok |-> FALSE, msg |-> out]
    IN  IF ~restrict THEN [store |-> st1, saved |-> TRUE, ok |-> TRUE, msg |-> "set"]
        ELSE IF out = "no_permission" THEN unsaved
        ELSE IF ~hasRole /\ out = "role_failed" THEN unsaved
        ELSE IF out \in {"Forbidden", "HTTPException"}
        THEN IF hasRole THEN unsaved
             ELSE [store |-> stR, saved |-> TRUE, ok |-> FALSE, msg |-> out]
        ELSE [store |-> stR, saved |-> TRUE, ok |-> TRUE, msg |-> "restricted"]

\* the state a `setting` handler leaves: g is what get_guild_config returned,
\* r what the handler made of it
AdminDone(g, r, op, t, key) ==
    /\ store' = r.store
    /\ heap' = Collect(r.store, g.heap)
    /\ file' = IF r.saved THEN Save(r.store, g.heap) ELSE g.file
    /\ last' = [op |-> op, tenant |-> t, key |-> key, ok |-> r.ok, msg |-> r.msg,
                raw |-> <<>>]

CmdLogSetup(t, channel, restrict, found, out) ==
    /\ store.loaded
    /\ AdminDone(GetGuildConfigOp(store, heap, file, t),
                 LogSetup(GetGuildConfigOp(store, heap, file, t), t, channel, restrict,
                          found, out),
                 "log_setup", t, "log_channel_id")
    /\ nOps' = nOps + 1
    /\ UNCHANGED <<detVars, verVars>>

\* `setting log_clear`
CmdLogClear(t) ==
    /\ store.loaded
    /\ LET g == GetGuildConfigOp(store, heap, file, t)
           st1 == [g.store EXCEPT !.guild_configs[t] = SetAttr(@, "log_channel_id", NoneV)]
       IN  /\ store' = st1
           /\ heap' = Collect(st1, g.heap)
           /\ file' = Save(st1, g.heap)
    /\ last' = [op |-> "log_clear", tenant |-> t, key |-> "log_channel_id", ok |-> TRUE,
                msg |-> "cleared", raw |-> <<>>]
    /\ nOps' = nOps + 1
    /\ UNCHANGED <<detVars, verVars>>

\* what an administrator types as a value
Raws ==
    {<<"Null">>, <<"7">>, <<" ", "1">>, <<"x">>, <<"TRUE">>}

\* the keys an administrator names: a boolean, a nullable integer and an
\* integer field (a threshold), a list, an unknown key
SetKeys ==
    {"ban_enabled", "log_channel_id", "ban_threshold", "ignore_role_ids", "no_such_key"}

InitAdm ==
    /\ now = 0
    /\ nOps = 0
    /\ gcfg = BaseConfig
    /\ detector = NoDetector
    /\ callLog = <<>>
    /\ last = NoOp
    /\ store = [default_config |-> MakeConfig(<<>>, <<>>).cfg, guild_configs |-> <<>>,
                loaded |-> FALSE]
    /\ heap = MakeConfig(<<>>, <<>>).heap
    /\ file \in {NoFile, PartialFile}
    /\ VerIdle

NextAdm ==
    \/ nOps < AdmMaxOps /\ CfgLoad
    \/ nOps < AdmMaxOps /\ \E rule \in BOOLEAN, key \in SetKeys, raw \in Raws :
          CmdSet(3, rule, key, raw)
    \/ nOps < AdmMaxOps /\ \E tt \in {NotGiven, 5}, bt \in {NotGiven, 1} : CmdBulk(3, tt, bt)
    \/ nOps < AdmMaxOps /\ \E restrict, found \in BOOLEAN, out \in SetupOutcomes :
          CmdLogSetup(3, 5, restrict, found, out)
    \/ nOps < AdmMaxOps /\ \E t \in Tenants : CmdLogClear(t)
    \/ nOps < AdmMaxOps /\ \E t \in Tenants : CfgListAdd(t, "ignore_role_ids", IntV(1))

SpecAdm == InitAdm /\ [][NextAdm]_vars

\* the integer a tenant's configuration holds in field f
IntOf(cfg, f) == cfg.f[f].v

\* C25: in every reachable configuration of every tenant, after any sequence
\* of admin operations (set, security rule set, setting bulk, set_guild_value)
\* and loads, warning_threshold <= timeout_threshold <= ban_threshold.
C25_ThresholdsMonotone ==
    \A t \in DOMAIN store.guild_configs :
        LET cfg == store.guild_configs[t]
        IN  /\ IntOf(cfg, "warning_threshold") <= IntOf(cfg, "timeout_threshold")
            /\ IntOf(cfg, "timeout_threshold") <= IntOf(cfg, "ban_threshold")

\* the operations of an administrator that can change a tenant's configuration
AdminOps ==
    {"set", "security_rule_set", "setting_bulk", "log_setup", "log_clear",
     "set_guild_value", "list_add"}

\* C26: every mutation of a tenant's configuration is persisted: whenever an
\* admin operation has returned, with success or with a reported failure, the
\* document on disk holds the in-memory default document and tenant
\* configurations (a fresh store loaded from it holds the same values).
C26_MutationsPersisted ==
    (store.loaded /\ last.op \in AdminOps) => LoadedView(file) = StoreView(store, heap)

\* what is in memory and not on disk is never more than log_channel_id, the
\* field `setting log_setup` assigns before its failure returns
C26_OnlyLogChannelUnsaved ==
    store.loaded =>
        LET disk == LoadedView(file)
            mem == StoreView(store, heap)
        IN  /\ disk.defaults = mem.defaults
            /\ DOMAIN disk.guilds = DOMAIN mem.guilds
            /\ \A t \in DOMAIN mem.guilds : \A f \in CfgFields \ {"log_channel_id"} :
                  disk.guilds[t][f] = mem.guilds[t][f]

\* a document read field by field: the document's value where it has the
\* field, the dataclass default where it has not
ReadDoc(doc) ==
    [f \in CfgFields |-> IF f \in DOMAIN doc THEN FromJson(doc[f]) ELSE DefaultValue(f)]

NullableIntFields == {"log_channel_id", "log_viewer_role_id"}

BoolFields == {"ban_enabled"}

IntFields == {"score_threshold", "warning_threshold", "timeout_threshold", "ban_threshold"}

\* the configuration the command finds for tenant t: the tenant's, or the
\* copy of the default document that get_guild_config makes
Found(st, hp, t) ==
    IF t \in DOMAIN st.guild_configs THEN AsDict(st.guild_configs[t], hp)
    ELSE AsDict(st.default_config, hp)

\* C28: `set` and `security rule set` coerce the string by the declared kind
\* of the field: for a nullable-integer field `none` and `null` give null and
\* a decimal string gives that integer, whatever the field holds; a boolean
\* field becomes true exactly for 1, true, yes, on in any case; an integer
\* field takes a decimal parse and otherwise the command reports a failure
\* and the configuration is as it was.
C28_CoercionByDeclaredKind ==
    [][(/\ last'.op \in {"set", "security_rule_set"} /\ nOps' # nOps
        /\ last'.key \in NullableIntFields \cup BoolFields \cup IntFields
        /\ (last'.op = "security_rule_set" => last'.key \in EditableSecurityRules))
       => LET t == last'.tenant
              key == last'.key
              raw == last'.raw
              old == Found(store, heap, t)
              new == AsDict(store'.guild_configs[t], heap')
              int == ParseInt(raw)
              set(v) == last'.ok /\ new = [old EXCEPT ![key] = v]
              failed == ~last'.ok /\ new = old
          IN  IF key \in BoolFields
              THEN set(BoolV(LowerStr(raw) \in {<<"1">>, <<"true">>, <<"yes">>, <<"on">>}))
              ELSE IF key \in NullableIntFields /\ LowerStr(raw) \in {<<"none">>, <<"null">>}
              THEN set(NoneV)
              ELSE IF int.ok THEN set(int.v)
              ELSE failed]_vars

-----------------------------------------------------------------------------
(* The moderation steps of handle_message against a platform that refuses  *)
(* or fails: every message carries a phishing URL, so each one is          *)
(* enforced, and the author's offenses climb through warn, timeout, ban.   *)

ActMaxOps == 3

ActConfigs ==
    {[BaseConfig EXCEPT !.warning_threshold = w, !.timeout_threshold = 2,
                        !.ban_threshold = 3, !.ban_enabled = TRUE] : w \in {1, 2}}

ActMessage ==
    [channel |-> 1, author |-> 1, roles |-> {}, content |-> PhishingUrl, mentions |-> 0,
     account_created_at |-> now - 2 * Day, joined_at |-> NoTime]

InitAct ==
    /\ CfgIdle
    /\ VerIdle
    /\ now = 0
    /\ nOps = 0
    /\ gcfg \in ActConfigs
    /\ detector = NoDetector
    /\ callLog = <<>>
    /\ last = NoOp

NextAct ==
    \/ now < GateMaxTime /\ Tick
    \/ nOps < ActMaxOps /\ \E delOut, actOut \in PlatformOutcomes :
          HandleMessage(ActMessage, delOut, actOut)

SpecAct == InitAct /\ [][NextAct]_vars

\* the status the claim gives to what a platform call answered
ClaimedStatus(outcome) ==
    CASE outcome = "ok" -> "ok"
      [] outcome = "Forbidden" -> "forbidden"
      [] outcome = "HTTPException" -> "http_error"
      [] outcome = "AttributeError" -> "not_supported"

\* C29: every platform error raised by a moderation step of handle_message
\* (delete, warn, timeout, ban) is converted to that step's status and does
\* not leave handle_message: Forbidden is recorded as forbidden, any other
\* HTTP failure as http_error, a missing capability as not_supported, for
\* every step including the warn post; handle_message returns enforced = true.
C29_PlatformErrorsToStatus ==
    (last.op \in {"handle_message", "handle_message_raised"} /\ callLog # <<>>
        /\ callLog[Len(callLog)].op = "decide_enforcement")
        => /\ last.op = "handle_message"
           /\ last.enforced
           /\ last.delete_status = ClaimedStatus(last.outcomes[1])
           /\ Len(last.outcomes) = 2
                 => last.action_status = ClaimedStatus(last.outcomes[2])

\* the same with the warn post left out
C29_ExceptWarn ==
    (last.op \in {"handle_message", "handle_message_raised"} /\ callLog # <<>>
        /\ callLog[Len(callLog)].op = "decide_enforcement")
        => /\ last.op = "handle_message"
           /\ last.enforced
           /\ last.delete_status = ClaimedStatus(last.outcomes[1])
           /\ (Len(last.outcomes) = 2 /\ last.action # "warn")
                 => last.action_status = ClaimedStatus(last.outcomes[2])

\* a ban refused by the platform after a failed delete was recorded
C29_BanRefused ==
    /\ last.op = "handle_message"
    /\ last.enforced
    /\ last.action = "ban"
    /\ last.outcomes = <<"HTTPException", "Forbidden">>
    /\ last.delete_status = "http_error"
    /\ last.action_status = "forbidden"

-----------------------------------------------------------------------------
(* The expiry timer second by second: one join, the clock read with its    *)
(* sub-second part when the timer computes its sleep.                      *)

ExpMaxTime == 61

ExpMaxOps == 1

NextExp ==
    \/ now + 1 <= ExpMaxTime /\ VTick(1)
    \/ nOps < ExpMaxOps /\ JoinStart(TRUE, TRUE, "ok", "ok")
    \/ \E id \in DOMAIN tasks : JoinOpen(id, <<"1">>)
    \/ \E id \in DOMAIN tasks : JoinSchedule(id)
    \/ \E id \in DOMAIN tasks, late \in BOOLEAN : TimerStartAt(id, late)
    \/ \E id \in DOMAIN tasks, found \in BOOLEAN, out \in {"ok", "Forbidden", "HTTPException"} :
          TimerWake(id, found, out)
    \/ \E id \in DOMAIN tasks : TimerFinish(id)

SpecExp == InitLive /\ [][NextExp]_vars

\* C30: the expiry timer never applies the failure action before expires_at
\* of the session currently stored: whenever _timeout_job applies it, the
\* clock has reached that session's expires_at.
C30_NoFailureBeforeExpiry ==
    [][(Len(vlog') = Len(vlog) + 1 /\ vlog'[Len(vlog')].ev = "fail"
            /\ vlog'[Len(vlog')].by = "timer")
        => /\ VKey \in DOMAIN sessions
           /\ now >= sobj[sessions[VKey]].expires_at]_vars

\* with a single join, the timer is early by less than one second: the
\* failure action comes in the last whole second before expires_at or later
C30_LessThanOneSecondEarly ==
    [][(Len(vlog') = Len(vlog) + 1 /\ vlog'[Len(vlog')].ev = "fail"
            /\ vlog'[Len(vlog')].by = "timer")
        => /\ VKey \in DOMAIN sessions
           /\ now >= sobj[sessions[VKey]].expires_at - 1]_vars

-----------------------------------------------------------------------------
(* URL repeat: a user posts one URL, the same URL twice, two URLs, a URL   *)
(* beside one that urlparse rejects, while another user posts the first   *)
(* URL; url_threshold is 2, so a message of two URLs is `url_spam` too.    *)

RepMaxOps == 3

RepConfigs ==
    {[BaseConfig EXCEPT !.url_repeat_threshold = r[1], !.url_repeat_window_sec = r[2],
                        !.url_threshold = 2,
                        !.max_msg_in_window = 9, !.dup_threshold = 9,
                        !.mention_threshold = 9, !.raid_join_threshold = 9] :
        r \in {<<2, 1>>, <<3, 2>>}}

RepContents ==
    {<<"http://", "a">>,
     <<"http://", "a", " ", "http://", "a">>,
     <<"HTTP://", "A", " ", "http://", "b">>,
     <<"http://", "b", " ", "http://", "[">>}

InitRep ==
    /\ CfgIdle
    /\ VerIdle
    /\ now = 0
    /\ nOps = 0
    /\ gcfg \in RepConfigs
    /\ detector = NoDetector
    /\ callLog = <<>>
    /\ last = NoOp

NextRep ==
    \/ now < MaxTime /\ Tick
    \/ nOps < RepMaxOps /\ \E c \in RepContents : ScoreCall(Snapshot(1, c, 0, 2 * Day, NoTime))
    \/ nOps < RepMaxOps /\ ScoreCall(Snapshot(2, <<"http://", "a">>, 0, 2 * Day, NoTime))

SpecRep == InitRep /\ [][NextRep]_vars

\* the URLs of a message as score sees them
UrlsOf(content) == LET found == FindUrls(content) IN [i \in DOMAIN found |-> LowerStr(found[i])]

\* how many times url was posted by user u in the score calls with
\* createdAt >= t - url_repeat_window_sec, the current one included
RECURSIVE PostedInWindow(_, _, _, _)
PostedInWindow(log, u, url, t) ==
    IF log = <<>> THEN 0
    ELSE LET e == log[Len(log)]
             here == IF e.op = "score" /\ e.user = u /\ e.t >= t - gcfg.url_repeat_window_sec
                     THEN Cardinality({i \in DOMAIN UrlsOf(e.snapshot.content) :
                                          UrlsOf(e.snapshot.content)[i] = url})
                     ELSE 0
         IN  here + PostedInWindow(SubSeq(log, 1, Len(log) - 1), u, url, t)

\* the URLs of the last scored message that reach url_repeat_threshold
Qualifying ==
    {url \in Range(UrlsOf(callLog[Len(callLog)].snapshot.content)) :
        PostedInWindow(callLog, last.user, url, last.t) >= gcfg.url_repeat_threshold}

\* C31: a score call tags `repeated_url_posts` iff at least one URL of the
\* message occurs >= url_repeat_threshold times among the URLs the user posted
\* within url_repeat_window_sec, the occurrences in the message itself
\* counted; the tag adds 3 once, however many distinct URLs qualify (here the
\* only other weight is the 3 of `url_spam`).
C31_RepeatedUrlPosts ==
    last.op = "score" =>
        /\ ("repeated_url_posts" \in Range(last.reasons)) <=> (Qualifying # {})
        /\ last.score = (IF Qualifying # {} THEN 3 ELSE 0)
                        + (IF "url_spam" \in Range(last.reasons) THEN 3 ELSE 0)

\* two distinct URLs of one message qualify and the bonus is 3, beside the 3
\* of url_spam
C31_Witness ==
    /\ last.op = "score"
    /\ Cardinality(Qualifying) = 2
    /\ last.score = 6

\* a first message that holds the same URL url_repeat_threshold times
C31_WitnessOneMessage ==
    /\ last.op = "score"
    /\ Len(callLog) = 1
    /\ "repeated_url_posts" \in Range(last.reasons)

\* a URL posted often enough, but not within the window: no tag
C31_WitnessOutside ==
    /\ last.op = "score"
    /\ Qualifying = {}
    /\ \E url \in Range(UrlsOf(callLog[Len(callLog)].snapshot.content)) :
          PostedInWindow(callLog, last.user, url, last.t - MaxTime)
              >= gcfg.url_repeat_threshold

-----------------------------------------------------------------------------
(* One URL written four ways: with and without www., with a trailing dot   *)
(* on the host, in upper case.                                             *)

CanonMaxOps == 2

CanonConfig ==
    [BaseConfig EXCEPT !.url_repeat_threshold = 2, !.url_repeat_window_sec = 2,
                       !.url_threshold = 9, !.max_msg_in_window = 9,
                       !.dup_threshold = 9, !.mention_threshold = 9,
                       !.raid_join_threshold = 9]

CanonContents ==
    {<<"https://", "www.", "spam", ".", "example", "/", "x">>,
     <<"https://", "spam", ".", "example", "/", "x">>,
     <<"https://", "spam", ".", "example", ".", "/", "x">>,
     <<"HTTPS://", "spam", ".", "example", "/", "x">>,
     <<"https://", "spam", ".", "example", "/", "y">>}

InitCanon ==
    /\ CfgIdle
    /\ VerIdle
    /\ now = 0
    /\ nOps = 0
    /\ gcfg = CanonConfig
    /\ detector = NoDetector
    /\ callLog = <<>>
    /\ last = NoOp

NextCanon ==
    \/ now < MaxTime /\ Tick
    \/ nOps < CanonMaxOps /\ \E c \in CanonContents :
          ScoreCall(Snapshot(1, c, 0, 2 * Day, NoTime))

SpecCanon == InitCanon /\ [][NextCanon]_vars

\* the path of a URL: from the first "/" after the scheme on
RECURSIVE FromSlash(_)
FromSlash(s) == IF s = <<>> \/ s[1] = "/" THEN s ELSE FromSlash(Tail(s))

\* the canonical form as the claim words it: canonical host plus path
ClaimedCanonical(url) == ClaimedHost(url) \o FromSlash(Tail(LowerStr(url)))

\* how many URLs of canonical form c user u posted in the score calls with
\* createdAt >= t - url_repeat_window_sec, the current one included
RECURSIVE CanonicalInWindow(_, _, _, _)
CanonicalInWindow(log, u, c, t) ==
    IF log = <<>> THEN 0
    ELSE LET e == log[Len(log)]
             urls == UrlsOf(e.snapshot.content)
             here == IF e.op = "score" /\ e.user = u /\ e.t >= t - gcfg.url_repeat_window_sec
                     THEN Cardinality({i \in DOMAIN urls : ClaimedCanonical(urls[i]) = c})
                     ELSE 0
         IN  here + CanonicalInWindow(SubSeq(log, 1, Len(log) - 1), u, c, t)

\* C32: URLs are recorded in canonical form (host lower-cased, trailing dots
\* and a leading www. stripped, plus path): every entry of user_urls is the
\* canonical form of a posted URL, and a score call tags `repeated_url_posts`
\* iff some URL of the message has a canonical form the user posted
\* >= url_repeat_threshold times within url_repeat_window_sec.
C32_CanonicalUrlPosts ==
    last.op = "score" =>
        LET urls == UrlsOf(callLog[Len(callLog)].snapshot.content)
            h == detector.user_urls[last.user]
        IN  /\ \A i \in DOMAIN h : h[i][2] = ClaimedCanonical(h[i][2])
            /\ ("repeated_url_posts" \in Range(last.reasons))
                  <=> \E i \in DOMAIN urls :
                         CanonicalInWindow(callLog, last.user, ClaimedCanonical(urls[i]), last.t)
                             >= gcfg.url_repeat_threshold

\* what holds of the code: two posts count as one URL exactly when their
\* lower-cased texts are equal, so case is the only difference that is
\* folded
C32_LowerCasedTextCounts ==
    last.op = "score" =>
        LET urls == UrlsOf(callLog[Len(callLog)].snapshot.content)
        IN  ("repeated_url_posts" \in Range(last.reasons))
               <=> \E i \in DOMAIN urls :
                      PostedInWindow(callLog, last.user, urls[i], last.t)
                          >= gcfg.url_repeat_threshold

\* the claim's example: the URL with www. and then without, inside the
\* window, and no tag
C32_WwwNotCounted ==
    /\ last.op = "score"
    /\ Len(callLog) = 2
    /\ callLog[1].snapshot.content = <<"https://", "www.", "spam", ".", "example", "/", "x">>
    /\ callLog[2].snapshot.content = <<"https://", "spam", ".", "example", "/", "x">>
    /\ callLog[1].t >= last.t - gcfg.url_repeat_window_sec
    /\ "repeated_url_posts" \notin Range(last.reasons)

-----------------------------------------------------------------------------
(* The detector called with the timestamps its callers choose: score takes *)
(* snapshot.created_at, register_join takes joined_at, decide_enforcement  *)
(* takes now, and none of them compares it with what the histories hold.   *)

OrdMaxOps == 3

\* the timestamps a caller passes
OrdTimes == 0 .. 2

OrdConfig ==
    [BaseConfig EXCEPT !.max_msg_in_window = 9, !.dup_threshold = 9, !.url_threshold = 9,
                       !.url_repeat_threshold = 9, !.mention_threshold = 9,
                       !.raid_join_threshold = 9, !.new_member_window_sec = 2]

\* detector.score(snapshot) with created_at = t
ScoreAt(u, content, t) ==
    /\ LET snapshot == [user_id |-> u, content |-> content, mention_count |-> 0,
                        created_at |-> t, account_created_at |-> t - 2 * Day,
                        joined_at |-> t]
           r == Score(ResolveDetector, gcfg, snapshot)
       IN  /\ detector' = r.det
           /\ last' = [op |-> "score", user |-> u, t |-> t, score |-> r.score,
                       reasons |-> r.reasons]
           /\ callLog' = Append(callLog, [op |-> "score", user |-> u, t |-> t,
                                          snapshot |-> snapshot])
    /\ nOps' = nOps + 1
    /\ UNCHANGED <<now, gcfg, cfgVars, verVars>>

\* detector.register_join(user_id, joined_at)
RegisterJoinAt(u, t) ==
    /\ detector' = RegisterJoinOp(ResolveDetector, gcfg, u, t)
    /\ last' = [op |-> "register_join", user |-> u, t |-> t]
    /\ callLog' = Append(callLog, [op |-> "register_join", user |-> u, t |-> t])
    /\ nOps' = nOps + 1
    /\ UNCHANGED <<now, gcfg, cfgVars, verVars>>

\* detector.decide_enforcement(user_id, now) with now = t
DecideAt(u, t) ==
    /\ LET r == DecideEnforcement(ResolveDetector, gcfg, u, t)
       IN  /\ detector' = r.det
           /\ last' = [op |-> "decide_enforcement", user |-> u, t |-> t,
                       offense_count |-> r.offense_count, action |-> r.action]
    /\ callLog' = Append(callLog, [op |-> "decide_enforcement", user |-> u, t |-> t])
    /\ nOps' = nOps + 1
    /\ UNCHANGED <<now, gcfg, cfgVars, verVars>>

InitOrd ==
    /\ CfgIdle
    /\ VerIdle
    /\ now = 0
    /\ nOps = 0
    /\ gcfg = OrdConfig
    /\ detector = NoDetector
    /\ callLog = <<>>
    /\ last = NoOp

NextOrd ==
    \/ nOps < OrdMaxOps /\ \E u \in Users, t \in OrdTimes : ScoreAt(u, <<"http://", "a">>, t)
    \/ nOps < OrdMaxOps /\ \E u \in Users, t \in OrdTimes : RegisterJoinAt(u, t)
    \/ nOps < OrdMaxOps /\ \E u \in Users, t \in OrdTimes : DecideAt(u, t)

SpecOrd == InitOrd /\ [][NextOrd]_vars

\* a history of bare timestamps, of (timestamp, x) pairs, in non-decreasing order
Sorted(h) == \A i, j \in DOMAIN h : i <= j => h[i] <= h[j]

SortedPairs(h) == \A i, j \in DOMAIN h : i <= j => h[i][1] <= h[j][1]

AllSorted(det) ==
    /\ \A u \in DOMAIN det.user_messages : Sorted(det.user_messages[u])
    /\ \A u \in DOMAIN det.user_duplicates : SortedPairs(det.user_duplicates[u])
    /\ \A u \in DOMAIN det.user_urls : SortedPairs(det.user_urls[u])
    /\ \A u \in DOMAIN det.user_offenses : Sorted(det.user_offenses[u])
    /\ SortedPairs(det.recent_joins)
    /\ Sorted(det.recent_new_user_messages)

\* C33: after any sequence of score, register_join and decide_enforcement
\* calls, with whatever timestamps the callers pass, every history sequence
\* (user_messages, user_duplicates, user_urls, user_offenses of each user,
\* recent_joins, recent_new_user_messages) is in non-decreasing time order.
C33_HistoriesSorted == detector # NoDetector => AllSorted(detector)

\* the histories are sorted as long as no call passes an earlier timestamp
\* than a call before it
C33_SortedWhileCallsInOrder ==
    (detector # NoDetector /\ Sorted([i \in DOMAIN callLog |-> callLog[i].t]))
        => AllSorted(detector)

\* calls with timestamps in order that filled every history
C33_InOrderFilled ==
    /\ detector # NoDetector
    /\ Sorted([i \in DOMAIN callLog |-> callLog[i].t])
    /\ Len(callLog) = OrdMaxOps
    /\ \E u \in DOMAIN detector.user_messages : Len(detector.user_messages[u]) >= 2

-----------------------------------------------------------------------------
(* Retention of the per-user histories (checked over SpecPrune: two users, *)
(* every window 1 or 2 seconds wide, the clock running up to MaxTime)      *)

\* the largest of window_sec, duplicate_window_sec and url_repeat_window_sec
RetentionHorizon(cfg) ==
    Max(cfg.window_sec, Max(cfg.duplicate_window_sec, cfg.url_repeat_window_sec))

\* the users the detector holds a message, duplicate or URL history for
HeldUsers(det) ==
    (DOMAIN det.user_messages) \cup (DOMAIN det.user_duplicates) \cup (DOMAIN det.user_urls)

\* user u posted a message with createdAt >= t
PostedSince(u, t) ==
    \E i \in DOMAIN callLog :
        callLog[i].op = "score" /\ callLog[i].user = u /\ callLog[i].t >= t

\* C34: at every score call with time t, every user with an entry in
\* user_messages, user_duplicates or user_urls has at least one message with
\* createdAt >= t minus the largest of window_sec, duplicate_window_sec and
\* url_repeat_window_sec: the histories of a user who stopped posting do not
\* stay.
C34_HeldOnlyWhilePosting ==
    last.op \in {"score", "score_raised"} =>
        \A u \in HeldUsers(detector) : PostedSince(u, last.t - RetentionHorizon(gcfg))

\* what holds of the code: the histories of the user being scored are
\* inside the horizon after the call
C34_ScoredUserPruned ==
    last.op \in {"score", "score_raised"} =>
        /\ PostedSince(last.user, last.t - RetentionHorizon(gcfg))
        /\ \A i \in DOMAIN detector.user_messages[last.user] :
              detector.user_messages[last.user][i] >= last.t - RetentionHorizon(gcfg)

\* a user who stopped posting keeps non-empty histories with nothing but
\* entries older than the horizon, while another user is scored
C34_StaleKept ==
    /\ last.op = "score"
    /\ \E u \in HeldUsers(detector) \ {last.user} :
          /\ ~PostedSince(u, last.t - RetentionHorizon(gcfg))
          /\ detector.user_messages[u] # <<>>
          /\ detector.user_duplicates[u] # <<>>

-----------------------------------------------------------------------------
(* SecurityRuntime over the configuration store: one detector per tenant,  *)
(* built with the tenant's configuration object and rebuilt when the       *)
(* store holds another object for the tenant.  Here `detector` is the dict *)
(* SecurityRuntime.detectors, tenant -> [config, state], where config      *)
(* names the configuration object the detector was built with; the store   *)
(* carries, in ids, the name of the object guild_configs holds for each    *)
(* tenant, and in made the number of objects constructed so far.           *)

RtMaxOps == 3

\* the store with a name for every configuration object: the objects named
\* in ids are the ones that were there, every other one is newly constructed
Named(st, ids, made) ==
    LET new == SortedSeq((DOMAIN st.guild_configs) \ (DOMAIN ids))
        rank(t) == CHOOSE i \in DOMAIN new : new[i] = t
    IN  [default_config |-> st.default_config, guild_configs |-> st.guild_configs,
         loaded |-> st.loaded,
         ids |-> [t \in DOMAIN st.guild_configs |->
                     IF t \in DOMAIN ids THEN ids[t] ELSE made + rank(t)],
         made |-> made + Len(new)]

\* the configuration a detector reads through self.config: the fields the
\* store model keeps, the windows and the other thresholds as in BaseConfig
RtConfig(cfg, hp) ==
    [BaseConfig EXCEPT
        !.score_threshold = cfg.f["score_threshold"].v,
        !.ban_enabled = cfg.f["ban_enabled"].v,
        !.warning_threshold = cfg.f["warning_threshold"].v,
        !.timeout_threshold = cfg.f["timeout_threshold"].v,
        !.ban_threshold = cfg.f["ban_threshold"].v,
        !.ignore_role_ids = [i \in DOMAIN hp[cfg.f["ignore_role_ids"].r] |->
                                hp[cfg.f["ignore_role_ids"].r][i].v],
        !.ignore_channel_ids = <<>>,
        !.suspicious_tlds = [i \in DOMAIN hp[cfg.f["suspicious_tlds"].r] |->
                                <<hp[cfg.f["suspicious_tlds"].r][i].v>>],
        !.max_msg_in_window = 9, !.dup_threshold = 9, !.url_threshold = 9,
        !.url_repeat_threshold = 9, !.mention_threshold = 9, !.raid_join_threshold = 9]

\* a resolve_detector that hands every guild the detector state of the guild
\* that came first
ResolveDetectorShared(dets, st, guild_id) ==
    [config |-> st.ids[guild_id],
     state |-> IF dets = <<>> THEN NewDetector
               ELSE dets[CHOOSE t \in DOMAIN dets : \A t2 \in DOMAIN dets : t <= t2].state]

\* a resolve_detector that builds a detector on every call
ResolveDetectorAlwaysNew(dets, st, guild_id) ==
    [config |-> st.ids[guild_id], state |-> NewDetector]

\* SecurityRuntime.resolve_detector, after its get_guild_config: the
\* detector kept if it was built with the object the store holds
ResolveDetectorOp(dets, st, guild_id) ==
    IF guild_id \in DOMAIN dets /\ dets[guild_id].config = st.ids[guild_id]
    THEN dets[guild_id]
    ELSE [config |-> st.ids[guild_id], state |-> NewDetector]

\* SecurityRuntime.handle_message up to decide_enforcement (lines 255-278):
\* the detector it leaves for the guild and what it found; g is what
\* get_guild_config returned, st the store with its objects named
RtScore(dets, g, st, message) ==
    LET t == message.guild
        cfg == RtConfig(st.guild_configs[t], g.heap)
        d == ResolveDetectorOp(dets, st, t)
        snapshot == [user_id |-> message.author, content |-> message.content,
                     mention_count |-> 0, created_at |-> now,
                     account_created_at |-> now - 2 * Day, joined_at |-> NoTime]
        result == Score(d.state, cfg, snapshot)
        decision == DecideEnforcement(result.det, cfg, message.author, now)
        enforced == ~result.raised /\ ShouldEnforce(result, cfg)
    IN  IF IsExempt(message, cfg)
        THEN [detectors |-> dets, exempt |-> TRUE, raised |-> FALSE, enforced |-> FALSE,
              built |-> FALSE]
        ELSE [detectors |-> DPut(dets, t, [config |-> d.config,
                                           state |-> IF enforced THEN decision.det
                                                     ELSE result.det]),
              exempt |-> FALSE, raised |-> result.raised, enforced |-> enforced,
              built |-> ~(t \in DOMAIN dets /\ dets[t] = d)]

RtDone(g, st, r, message) ==
    /\ store' = st
    /\ heap' = Collect(st, g.heap)
    /\ file' = g.file
    /\ detector' = r.detectors
    /\ last' = [op |-> "handle_message", tenant |-> message.guild, user |-> message.author,
                t |-> now, message |-> message, exempt |-> r.exempt, raised |-> r.raised,
                enforced |-> r.enforced, built |-> r.built]

RtHandleAt(g, st, message) == RtDone(g, st, RtScore(detector, g, st, message), message)

\* SecurityRuntime.handle_message(message) in guild message.guild
RtHandle(message) ==
    /\ store.loaded
    /\ RtHandleAt(GetGuildConfigOp(store, heap, file, message.guild),
                  Named(GetGuildConfigOp(store, heap, file, message.guild).store,
                        store.ids, store.made),
                  message)
    /\ callLog' = Append(callLog, [op |-> "handle_message", tenant |-> message.guild,
                                   user |-> message.author, t |-> now])
    /\ nOps' = nOps + 1
    /\ UNCHANGED <<now, gcfg, verVars>>

\* ConfigStore.load(): every configuration object of the store is replaced
RtLoad ==
    /\ store' = Named(LoadStore(file).store, <<>>, store.made)
    /\ heap' = LoadStore(file).heap
    /\ file' = LoadStore(file).file
    /\ last' = [op |-> "load", tenant |-> 0]
    /\ callLog' = Append(callLog, [op |-> "load", tenant |-> 0, user |-> 0, t |-> now])
    /\ nOps' = nOps + 1
    /\ UNCHANGED <<now, gcfg, detector, verVars>>

RtSetAt(r, guild_id, key) ==
    /\ store' = Named(r.store, store.ids, store.made)
    /\ heap' = Collect(r.store, r.heap)
    /\ file' = r.file
    /\ last' = [op |-> "set_guild_value", tenant |-> guild_id, key |-> key, ok |-> r.ok]

\* ConfigStore.set_guild_value(guild_id, key, value), as the admin commands
\* call it
RtSet(guild_id, key, value) ==
    /\ store.loaded
    /\ RtSetAt(SetGuildValueOp(store, heap, file, guild_id, key, value), guild_id, key)
    /\ callLog' = Append(callLog, [op |-> "set_guild_value", tenant |-> guild_id, user |-> 0,
                                   t |-> now])
    /\ nOps' = nOps + 1
    /\ UNCHANGED <<now, gcfg, detector, verVars>>

\* the messages posted: a plain text by either user, a URL of the blocked
\* host by user 1, a plain text by an author with role 1
RtMessages ==
    {[guild |-> t, channel |-> 1, author |-> u, roles |-> {}, content |-> <<"a">>] :
        t \in Tenants, u \in Users}
    \cup {[guild |-> t, channel |-> 1, author |-> 1, roles |-> {},
           content |-> PhishingUrl] : t \in Tenants}
    \cup {[guild |-> 12, channel |-> 1, author |-> 2, roles |-> {1}, content |-> <<"a">>]}

\* the runtime is constructed with a store that was loaded (bot start-up),
\* from no file or from a file with one tenant
InitRt ==
    /\ VerIdle
    /\ now = 0
    /\ nOps = 0
    /\ gcfg = BaseConfig
    /\ detector = <<>>
    /\ callLog = <<>>
    /\ last = NoOp
    /\ \E fl \in {NoFile, PartialFile} :
          /\ store = Named(LoadStore(fl).store, <<>>, 0)
          /\ heap = LoadStore(fl).heap
          /\ file = LoadStore(fl).file

NextRt ==
    \/ now < GateMaxTime /\ Tick
    \/ nOps < RtMaxOps /\ RtLoad
    \/ nOps < RtMaxOps /\ \E t \in Tenants : RtSet(t, "score_threshold", IntV(0))
    \/ nOps < RtMaxOps /\ \E m \in RtMessages : RtHandle(m)

SpecRt == InitRt /\ [][NextRt]_vars

\* the detector state handle_message leaves when it starts from det: the
\* message scored and, if it passes the gate, the offense recorded
RtAfter(det, cfg, message, t) ==
    LET snapshot == [user_id |-> message.author, content |-> message.content,
                     mention_count |-> 0, created_at |-> t,
                     account_created_at |-> t - 2 * Day, joined_at |-> NoTime]
        result == Score(det, cfg, snapshot)
    IN  IF ~result.raised /\ ShouldEnforce(result, cfg)
        THEN DecideEnforcement(result.det, cfg, message.author, t).det
        ELSE result.det

\* C35: resolve_detector returns the tenant's detector with its histories,
\* raid state and offense ledger (the call continues from the state the
\* detector had) whenever the store holds, for the tenant, the configuration
\* object the detector was built with; set_guild_value replaces no object and
\* resets no detector; load() replaces every object, and the next call for a
\* tenant then builds a fresh, empty detector.
C35_DetectorKeptPerConfigObject ==
    [][/\ (nOps' # nOps /\ last'.op = "handle_message" /\ ~last'.exempt) =>
            LET t == last'.tenant
                cfg == RtConfig(store'.guild_configs[t], heap')
                same == /\ t \in DOMAIN detector
                        /\ t \in DOMAIN store.ids
                        /\ detector[t].config = store.ids[t]
            IN  /\ detector'[t].config = store'.ids[t]
                /\ same => detector'[t].state = RtAfter(detector[t].state, cfg, last'.message, now)
                /\ ~same => detector'[t].state = RtAfter(NewDetector, cfg, last'.message, now)
                /\ last'.built = ~same
       /\ (nOps' # nOps /\ last'.op = "set_guild_value") =>
            /\ detector' = detector
            /\ \A t \in DOMAIN store.ids : store'.ids[t] = store.ids[t]
       /\ (nOps' # nOps /\ last'.op = "load") =>
            /\ detector' = detector
            /\ \A t \in DOMAIN store'.ids : store'.ids[t] \notin Range(store.ids)
      ]_vars

\* a second message of a tenant after a set_guild_value for that tenant: the
\* detector was not rebuilt and holds both messages of the author
C35_Witness ==
    /\ Len(callLog) = 3
    /\ callLog[1].op = "handle_message"
    /\ callLog[2].op = "set_guild_value"
    /\ callLog[3].op = "handle_message"
    /\ callLog[1].tenant = callLog[3].tenant /\ callLog[2].tenant = callLog[3].tenant
    /\ callLog[1].user = callLog[3].user
    /\ callLog[3].t - callLog[1].t <= 1
    /\ last.op = "handle_message" /\ ~last.exempt /\ ~last.built
    /\ Len(detector[last.tenant].state.user_messages[last.user]) = 2

\* a second message of a tenant after a load(): the detector was rebuilt and
\* holds the second message only
C35_WitnessReload ==
    /\ Len(callLog) = 3
    /\ callLog[1].op = "handle_message"
    /\ callLog[2].op = "load"
    /\ callLog[3].op = "handle_message"
    /\ callLog[1].tenant = callLog[3].tenant
    /\ callLog[1].user = callLog[3].user
    /\ last.op = "handle_message" /\ ~last.exempt /\ last.built
    /\ callLog[1].t = callLog[3].t
    /\ Len(detector[last.tenant].state.user_messages[last.user]) = 1

\* the per-user histories and the offense ledger of a detector
UserHistories == {"user_messages", "user_duplicates", "user_urls", "user_offenses"}

\* C36: handling (scoring, and enforcing when the gate is passed) a message
\* of user u in tenant t leaves the message, duplicate and URL histories and
\* the offense ledger of every other user of t as they are in the detector
\* resolve_detector returned, and leaves all detector state of every other
\* tenant unchanged.
C36_OtherUsersAndTenantsUntouched ==
    [][(nOps' # nOps /\ last'.op = "handle_message") =>
          LET t == last'.tenant
              u == last'.user
              base == IF t \in DOMAIN detector /\ t \in DOMAIN store.ids
                         /\ detector[t].config = store.ids[t]
                      THEN detector[t].state ELSE NewDetector
          IN  /\ \A t2 \in Tenants \ {t} :
                    /\ (t2 \in DOMAIN detector') <=> (t2 \in DOMAIN detector)
                    /\ t2 \in DOMAIN detector => detector'[t2] = detector[t2]
              /\ last'.exempt => detector' = detector
              /\ ~last'.exempt =>
                    \A u2 \in Users \ {u} : \A h \in UserHistories :
                        DGet(detector'[t].state[h], u2) = DGet(base[h], u2)
      ]_vars

\* a message of one user enforced in a tenant whose detector holds a history
\* of the other user, while the other tenant has a detector as well
C36_Witness ==
    /\ last.op = "handle_message" /\ last.enforced /\ ~last.built
    /\ \E u2 \in Users \ {last.user} :
          DGet(detector[last.tenant].state.user_messages, u2) # <<>>
    /\ \E t2 \in Tenants \ {last.tenant} :
          t2 \in DOMAIN detector /\ detector[t2].state.user_messages # <<>>

-----------------------------------------------------------------------------
(* The offense ledger: messages of two users that pass the gate, do not    *)
(* pass it or are exempt, and score calls, over more than the offense      *)
(* window                                                                  *)

LedMaxOps == 3
LedMaxTime == 3

LedConfig == [BaseConfig EXCEPT !.offense_window_sec = 1]

LedMessages ==
    [channel : {1, 2}, author : Users, roles : {{}}, content : {<<"a">>, PhishingUrl},
     mentions : {0}, account_created_at : {now - 2 * Day}, joined_at : {NoTime}]

InitLed ==
    /\ CfgIdle
    /\ VerIdle
    /\ now = 0
    /\ nOps = 0
    /\ gcfg = LedConfig
    /\ detector = NoDetector
    /\ callLog = <<>>
    /\ last = NoOp

NextLed ==
    \/ now < LedMaxTime /\ Tick
    \/ nOps < LedMaxOps /\ \E m \in LedMessages : HandleMessage(m, "ok", "ok")
    \/ nOps < LedMaxOps /\ ScoreCall(Snapshot(1, PhishingUrl, 0, 2 * Day, NoTime))

SpecLed == InitLed /\ [][NextLed]_vars

\* the offense ledger of a user: user_offenses[u], empty before the first decision
Ledger(det, u) == IF det = NoDetector THEN <<>> ELSE DGet(det.user_offenses, u)

\* the step is a handle_message call of u whose message is not exempt and
\* passes the gate (the score reaches score_threshold or a forced reason)
PassesGate(u) ==
    /\ nOps' = nOps + 1
    /\ last'.op = "handle_message"
    /\ last'.user = u
    /\ ~IsExempt(last'.message, gcfg)
    /\ \/ last'.score >= gcfg.score_threshold
       \/ "phishing_domain" \in Range(last'.reasons)
       \/ "raid_activity" \in Range(last'.reasons)

\* C37: a user's offense ledger gains exactly one entry, the time of the
\* message, on each message of that user that passes the enforcement gate (the
\* entries older than offense_window_sec are dropped first), and no other
\* step changes it: not a message that does not pass the gate, not an exempt
\* message, not a message of another user and not a call of score alone.
C37_LedgerOnePerEnforced ==
    [][\A u \in Users :
          Ledger(detector', u) =
              IF PassesGate(u)
              THEN Append(PopOlder(Ledger(detector, u), now - gcfg.offense_window_sec), now)
              ELSE Ledger(detector, u)]_vars

\* C37 witness: a second message of user 1 passed the gate within the window,
\* after a message of user 1 that was scored and did not pass it
C37_Witness ==
    /\ last.op = "handle_message"
    /\ last.enforced
    /\ last.user = 1
    /\ last.offense_count = 2
    /\ Ledger(detector, 1) = <<now - 1, now>>
    /\ \E i \in DOMAIN callLog :
          /\ callLog[i].op = "score"
          /\ callLog[i].user = 1
          /\ callLog[i].snapshot.content = <<"a">>
          /\ i < Len(callLog)
          /\ callLog[i + 1].op # "decide_enforcement"

\* C37 witness of the frame: an exempt message with a blocked URL and a score
\* call with one left the ledger of the user as one enforced message made it
C37_WitnessUnchanged ==
    /\ last.op = "handle_message"
    /\ last.exempt
    /\ last.user = 1
    /\ last.message.content = PhishingUrl
    /\ Ledger(detector, 1) = <<0>>
    /\ Len(callLog) = 3
    /\ callLog[3].op = "score"
    /\ callLog[2].op = "decide_enforcement"

\* C37 witness of the window: the entry of an earlier message was dropped when
\* a message passed the gate after the offense window
C37_WitnessDropped ==
    /\ last.op = "handle_message"
    /\ last.enforced
    /\ last.offense_count = 1
    /\ \E i \in DOMAIN callLog :
          /\ callLog[i].op = "decide_enforcement"
          /\ callLog[i].user = last.user
          /\ callLog[i].t < now - gcfg.offense_window_sec

-----------------------------------------------------------------------------
(* A member with a pending session leaves and joins again: joins, leaves   *)
(* and the timers, no code submitted, each join after the one before has   *)
(* returned                                                                *)

RejoinMaxOps == 3

NextRejoin ==
    \/ \E d \in ClockSteps : now + d <= VMaxTime /\ VTick(d)
    \/ nOps < RejoinMaxOps /\ MemberLeaves
    \/ nOps < RejoinMaxOps /\ Handlers = {} /\ JoinStart(TRUE, TRUE, "ok", "ok")
    \/ LiveJoinOpen
    \/ LiveJoinSchedule
    \/ LiveTimerStart
    \/ LiveTimerWake
    \/ LiveTimerFinish

SpecRejoin == InitLive /\ [][NextRejoin]_vars

\* the timers scheduled for another session than the one stored for the key
OldTimers ==
    {i \in DOMAIN tasks :
        /\ tasks[i].kind = "timer"
        /\ VKey \in DOMAIN sessions
        /\ tasks[i].sess # sessions[VKey]}

\* the step is the return of handle_member_join from schedule_timeout
JoinReturns(j) ==
    /\ tasks[j].kind = "join"
    /\ tasks[j].pc = "j_notify"
    /\ j \notin DOMAIN tasks'

\* C38: when a member with a pending session joins again, the timer of the
\* replaced session never terminates the new one: a timer scheduled for
\* another session than the one stored neither applies the failure action
\* nor clears the stored session, and when handle_member_join returns the
\* session it started is stored and its timer is live.
C38_OldTimerSparesNewSession ==
    [][/\ \A i \in OldTimers :
             /\ ~(i \in DOMAIN tasks' /\ tasks[i].pc = "t_sleep" /\ tasks'[i].pc = "t_fail")
             /\ (i \notin DOMAIN tasks' /\ tasks[i].pc \in {"t_sleep", "t_fail"})
                    => VKey \in DOMAIN sessions'
       /\ \A j \in DOMAIN tasks :
             JoinReturns(j) =>
                /\ VKey \in DOMAIN sessions'
                /\ sessions'[VKey] = tasks[j].sess
                /\ VKey \in DOMAIN timeout_tasks'
                /\ timeout_tasks'[VKey] \in DOMAIN tasks'
                /\ tasks'[timeout_tasks'[VKey]].sess = tasks[j].sess]_vars

\* what schedule_timeout does provide: once handle_member_join has returned,
\* no timer of a replaced session is left
C38_ReschedulingCancelsPrior ==
    [][\A j \in DOMAIN tasks :
          JoinReturns(j) =>
              \A i \in DOMAIN tasks' :
                  tasks'[i].kind = "timer" => tasks'[i].sess = tasks[j].sess]_vars

\* the timer of the replaced session has applied the failure action while
\* handle_member_join is suspended between start_session and schedule_timeout
C38_OldTimerFailedInGap ==
    /\ \E j \in DOMAIN tasks : tasks[j].kind = "join" /\ tasks[j].pc = "j_notify"
                                /\ sessions[VKey] = tasks[j].sess
    /\ \E i \in OldTimers : tasks[i].pc = "t_fail"
    /\ vlog # <<>>
    /\ vlog[Len(vlog)] = Ev("fail", "timer", sessions[VKey], "ok")

\* handle_member_join has returned and the member has a timer but no session
C38_ReturnedWithoutSession ==
    /\ last.op = "handle_member_join"
    /\ last.step = "return"
    /\ last.msg = "scheduled"
    /\ last.sid = nSess
    /\ nSess = 2
    /\ VKey \notin DOMAIN sessions
    /\ VKey \in DOMAIN timeout_tasks
    /\ Ev("fail", "timer", 2, "ok") \in Range(vlog)

-----------------------------------------------------------------------------
(* Who gets a session: the filter of handle_member_join against            *)
(* send_new_code, under SpecVer                                            *)

\* C39: a verification session, and a timer that applies the failure action,
\* exists only for a member that passed the filter of handle_member_join
\* (not a bot, not an administrator or server manager, not whitelisted,
\* verification enabled); send_new_code opens none for an exempt member.
C39_SessionOnlyForEligible ==
    (VKey \in DOMAIN sessions \/ LiveTimers(VKey) # {}) => ~JoinFiltered(member, gcfg)

\* a whitelisted member whose join was filtered asked for a code and was
\* removed from the guild by the timer of the session send_new_code opened
C39_ExemptMemberKicked ==
    /\ VKey[2] \in Range(gcfg.whitelist_user_ids)
    /\ ~IsStaff(member)
    /\ ~member.inGuild
    /\ nSess = 1
    /\ vlog = <<Ev("fail", "timer", 1, "ok")>>

\* a member who has verified was given a new session by send_new_code
C39_VerifiedMemberSession ==
    /\ last.op = "send_new_code"
    /\ last.msg = "opened"
    /\ "Verified" \in member.roles
    /\ Ev("match", "verify", 1, "ok") \in Range(vlog)
    /\ VKey \in DOMAIN sessions
    /\ sessions[VKey] = 2
    /\ LiveTimers(VKey) # {}

=============================================================================
